---------------------------- MODULE Spec2Model ----------------------------
(***************************************************************************)
(* Model of the turn-resolution engine of dungeon-game2 (class GameEngine, *)
(* src/unnamed/part_001).  The game state is held in the variables below;  *)
(* every engine method is an operator from a state record to a state       *)
(* record, and the actions sequence them the way processAction does.       *)
(*                                                                         *)
(* Conventions.                                                            *)
(*  - JavaScript strings are TLA+ strings; toLowerCase and includes are    *)
(*    computed character by character.                                     *)
(*  - A JavaScript array is a sequence, an optional value is a sequence of *)
(*    length 0 or 1, a property bag is a function from its keys.           *)
(*  - Fractions (damage modifiers) are held in hundredths, so that         *)
(*    Math.floor(x * (1 + m)) is (x * (100 + m100)) \div 100.              *)
(*  - Date.now() is the variable now, counted in half hours: every real    *)
(*    elapsed time compares with the integer thresholds of the code and    *)
(*    floors under its integer divisors like an integer or a half.         *)
(*  - A thrown exception sets the field thrown of the state record; every  *)
(*    later statement of the same try block is skipped.                    *)
(***************************************************************************)
EXTENDS Integers, Sequences, FiniteSets, TLC

VARIABLES
  player,          \* gameState.player
  rooms,           \* gameState.rooms: room id -> Room
  bodies,          \* the DeadBody objects, by id (shared by room lists and registry)
  deadBodies,      \* gameState.deadBodies: the ids registered in the global Map
  currentTurn,     \* gameState.currentTurn
  gameLog,         \* gameState.gameLog
  gameOver,        \* gameState.gameOver
  emotionalEvents, \* length of gameState.emotionalEvents
  now,             \* Date.now(), in half hours
  nextId,          \* number of identifiers uuidv4 has handed out
  pc,              \* position of the processAction call in flight
  playerAction,    \* the PlayerAction of the call in flight
  intents,         \* response.intendedActions still to be applied
  calls,           \* history: number of processAction calls made
  executed,        \* history: intents the call in flight has applied
  pre,             \* history: the state record when the call in flight started
  outcome,         \* history: how the last processAction call ended
  statusTicks,     \* history: number of updateStatusEffects calls
  bodyTicks,       \* history: number of updateBodyDecomposition calls
  applied,         \* history: uids whose per-turn effect ran in the latest tick
  expired,         \* history: uids of the effects a tick has removed
  lastOp,          \* history: what the last step did (for the claims' cases)
  overlap          \* the processAction calls in flight at once, and how many
                   \* of them have completed their turn

vars == <<player, rooms, bodies, deadBodies, currentTurn, gameLog, gameOver,
          emotionalEvents, now, nextId, pc, playerAction, intents, calls,
          executed,
          pre, outcome, statusTicks, bodyTicks, applied, expired, lastOp,
          overlap>>

-----------------------------------------------------------------------------
(* Bounds of the model *)

MaxCalls == 3
MaxRooms == 3
MaxClock == 1100

-----------------------------------------------------------------------------
(* Strings *)

LowerChar(c) ==
  CASE c = "A" -> "a" [] c = "B" -> "b" [] c = "C" -> "c" [] c = "D" -> "d"
    [] c = "E" -> "e" [] c = "F" -> "f" [] c = "G" -> "g" [] c = "H" -> "h"
    [] c = "I" -> "i" [] c = "J" -> "j" [] c = "K" -> "k" [] c = "L" -> "l"
    [] c = "M" -> "m" [] c = "N" -> "n" [] c = "O" -> "o" [] c = "P" -> "p"
    [] c = "Q" -> "q" [] c = "R" -> "r" [] c = "S" -> "s" [] c = "T" -> "t"
    [] c = "U" -> "u" [] c = "V" -> "v" [] c = "W" -> "w" [] c = "X" -> "x"
    [] c = "Y" -> "y" [] c = "Z" -> "z" [] OTHER -> c

RECURSIVE toLowerCase(_)
toLowerCase(s) ==
  IF s = "" THEN ""
  ELSE LowerChar(SubSeq(s, 1, 1)) \o toLowerCase(SubSeq(s, 2, Len(s)))

\* String.prototype.includes
includes(hay, needle) ==
  \E i \in 1..(Len(hay) - Len(needle) + 1) :
    SubSeq(hay, i, i + Len(needle) - 1) = needle

\* Array.prototype.join(', ')
RECURSIVE joinNames(_)
joinNames(items) ==
  IF items = <<>> THEN ""
  ELSE IF Len(items) = 1 THEN items[1].name
  ELSE items[1].name \o ", " \o joinNames(Tail(items))

-----------------------------------------------------------------------------
(* Arrays *)

Max(a, b) == IF a >= b THEN a ELSE b
Min(a, b) == IF a <= b THEN a ELSE b

\* Array.prototype.findIndex: the first index whose element satisfies P, or 0
\* (the code's -1) when there is none.
findIndex(seq, P(_)) ==
  IF \E i \in 1..Len(seq) : P(seq[i])
  THEN CHOOSE i \in 1..Len(seq) : P(seq[i]) /\ \A j \in 1..(i - 1) : ~P(seq[j])
  ELSE 0

\* Array.prototype.splice(index, 1)
splice(seq, i) == SubSeq(seq, 1, i - 1) \o SubSeq(seq, i + 1, Len(seq))

\* Array.prototype.filter
filter(seq, P(_)) ==
  LET F[i \in 0..Len(seq)] ==
        IF i = 0 THEN <<>>
        ELSE IF P(seq[i]) THEN Append(F[i - 1], seq[i]) ELSE F[i - 1]
  IN F[Len(seq)]

\* for (const x of seq) s = Op(s, x), abandoned as soon as a statement throws
forEach(s, seq, Op(_, _)) ==
  LET F[i \in 0..Len(seq)] ==
        IF i = 0 THEN s
        ELSE LET before == F[i - 1]
             IN IF before.thrown THEN before ELSE Op(before, seq[i])
  IN F[Len(seq)]

Range(seq) == {seq[i] : i \in 1..Len(seq)}

\* const x = value; In(x): a value computed once and used several times
Let(value, In(_)) == In(value)

-----------------------------------------------------------------------------
(* The state record the engine's methods work on *)

GS ==
  [player |-> player, rooms |-> rooms, bodies |-> bodies,
   deadBodies |-> deadBodies, currentTurn |-> currentTurn,
   gameLog |-> gameLog, gameOver |-> gameOver,
   emotionalEvents |-> emotionalEvents, now |-> now, nextId |-> nextId,
   statusTicks |-> statusTicks, bodyTicks |-> bodyTicks,
   applied |-> applied, expired |-> expired, thrown |-> FALSE, ops |-> <<>>]

\* uuidv4(): the identifier handed out, and the state after handing it out
uuidv4(s) == "u" \o ToString(s.nextId + 1)
tookId(s) == [s EXCEPT !.nextId = @ + 1]

\* A faulty variant of addGameEvent: the log keeps only the latest event
keepLatestEvent(s, type, message) ==
  [s EXCEPT !.gameLog = <<[type |-> type, message |-> message]>>]

addGameEvent(s, type, message) ==
  [s EXCEPT !.gameLog = Append(@, [type |-> type, message |-> message])]

currentRoomOf(s) == s.rooms[s.player.currentRoomId]

\* History only: notes what a method did, for the properties to refer to
note(s, op) == [s EXCEPT !.ops = Append(@, op)]

-----------------------------------------------------------------------------
(* Status effects *)

\* status.effects || {}: the property bag, empty when effects is undefined
effectsOf(status) == IF status.hasEffects THEN status.effects ELSE <<>>
has(bag, key) == key \in DOMAIN bag

\* A faulty variant of processStatusEffect: damage the player cannot survive is
\* not dealt
sparingEffect(s, status) ==
  LET effects == effectsOf(status)
  IN [(IF has(effects, "damagePerTurn")
          /\ effects.damagePerTurn <= s.player.health
       THEN [s EXCEPT !.player.health = @ - effects.damagePerTurn]
       ELSE s) EXCEPT !.applied = @ \cup {status.uid}]

processStatusEffect(s, status) ==
  LET effects == effectsOf(status)
      s1 == IF has(effects, "damagePerTurn")
            THEN LET damage == effects.damagePerTurn
                     t == [s EXCEPT !.player.health = Max(0, @ - damage)]
                 IN IF damage > 0
                    THEN addGameEvent(t, "combat", status.name \o " deals damage!")
                    ELSE t
            ELSE s
      s2 == IF has(effects, "healingPerTurn")
            THEN LET healing == effects.healingPerTurn
                     t == [s1 EXCEPT !.player.health =
                                       Min(s1.player.maxHealth, @ + healing)]
                 IN IF healing > 0
                    THEN addGameEvent(t, "action", status.name \o " heals health.")
                    ELSE t
            ELSE s1
  IN [s2 EXCEPT !.applied = @ \cup {status.uid}]

\* A faulty variant of decreaseDuration: the permanent sentinel counted down
\* like any other duration
decreaseEvery(status) ==
  [status EXCEPT !.duration = @ - 1]

\* The .map step of updateStatusEffects
decreaseDuration(status) ==
  IF status.duration = -1 THEN status
  ELSE [status EXCEPT !.duration = @ - 1]

\* The predicate of the .filter step of updateStatusEffects
stillActive(status) == status.duration # 0

wornOff(s, status) ==
  IF stillActive(status) THEN s
  ELSE addGameEvent([s EXCEPT !.expired = @ \cup {status.uid}],
                    "system", status.name \o " has worn off.")

updateStatusEffects(s) ==
  Let(forEach([s EXCEPT !.statusTicks = @ + 1, !.applied = {}],
              s.player.statuses, processStatusEffect),
      LAMBDA s1 :
        Let([i \in 1..Len(s1.player.statuses) |->
               decreaseDuration(s1.player.statuses[i])],
            LAMBDA mapped :
              [forEach(s1, mapped, wornOff) EXCEPT
                 !.player.statuses = filter(mapped, stillActive)]))

\* The else branch of the loop over changes.addStatuses: the status pushed
pushStatus(s, status) ==
  note(addGameEvent(
         [tookId(s) EXCEPT
            !.player.statuses = Append(@, [status EXCEPT !.uid = uuidv4(s)])],
         "system", "You are now affected by " \o status.name \o "."),
       [op |-> "added", incoming |-> status])

\* A faulty variant of addStatus: every incoming status pushed
addStatusAgain(s, status) ==
  pushStatus(s, status)

\* One element of changes.addStatuses
addStatus(s, status) ==
  LET sameName(e) == toLowerCase(e.name) = toLowerCase(status.name)
      i == findIndex(s.player.statuses, sameName)
      existing == s.player.statuses[i]
      refreshed ==
        [existing EXCEPT
           !.duration = Max(existing.duration, status.duration),
           !.hasEffects = status.hasEffects \/ existing.hasEffects,
           !.effects = IF status.hasEffects THEN status.effects
                       ELSE existing.effects]
  IN IF i # 0
     THEN note(addGameEvent([s EXCEPT !.player.statuses[i] = refreshed],
                            "system", status.name \o " effect refreshed."),
               [op |-> "refreshed", incoming |-> status, before |-> existing,
                after |-> refreshed])
     ELSE pushStatus(s, status)

applyStateChanges(s, changes) ==
  LET s1 == IF changes.hasHealth
            THEN [s EXCEPT !.player.health =
                    Max(0, Min(@ + changes.health, s.player.maxHealth))]
            ELSE s
      kept(e) == e.id \notin Range(changes.removeStatuses)
  IN Let(forEach(s1, changes.addStatuses, addStatus),
         LAMBDA s2 :
           Let(IF changes.hasRemove
               THEN [s2 EXCEPT !.player.statuses = filter(@, kept)]
               ELSE s2,
               LAMBDA s3 :
                 IF changes.addFeatures # <<>>
                 THEN [s3 EXCEPT
                         !.rooms[s3.player.currentRoomId].specialFeatures =
                            @ \o changes.addFeatures]
                 ELSE s3))

-----------------------------------------------------------------------------
(* Experience *)

\* 1.5 ^ n as the fraction Pow(3, n) / Pow(2, n)
RECURSIVE Pow(_, _)
Pow(b, n) == IF n = 0 THEN 1 ELSE b * Pow(b, n - 1)

levelUp(s) ==
  LET level == s.player.level + 1
      healthGain == 20 + (level * 5)
      s1 == [s EXCEPT
               !.player.level = level,
               !.player.experienceToNext =
                  (100 * Pow(3, level - 1)) \div Pow(2, level - 1),
               !.player.maxHealth = @ + healthGain,
               !.player.health = s.player.maxHealth + healthGain]
      s2 == addGameEvent(s1, "levelup", "LEVEL UP!")
  IN addGameEvent(s2, "levelup", "max health! Fully healed!")

gainExperience(s, amount, reason) ==
  Let(addGameEvent([s EXCEPT !.player.experience = @ + amount],
                   "system", "XP (" \o reason \o ")"),
      LAMBDA s1 :
        IF s1.player.experience >= s1.player.experienceToNext
        THEN levelUp(s1)
        ELSE s1)

-----------------------------------------------------------------------------
(* Items *)

\* item.properties?.key || 0
prop(item, key) == IF has(item.properties, key) THEN item.properties[key] ELSE 0

\* The predicate of removeItemFromInventory and removeItemFromRoom
matchesName(item, itemName) ==
  \/ toLowerCase(item.name) = toLowerCase(itemName)
  \/ includes(toLowerCase(item.name), toLowerCase(itemName))

\* Decrements a stack or removes the entry at index i
removeOne(items, i) ==
  IF items[i].stackable /\ items[i].quantity > 1
  THEN [items EXCEPT ![i].quantity = @ - 1]
  ELSE splice(items, i)

inventoryIndex(s, itemName) ==
  LET P(item) == matchesName(item, itemName)
  IN findIndex(s.player.inventory, P)

removeItemFromInventory(s, itemName) ==
  LET i == inventoryIndex(s, itemName)
  IN IF i # 0
     THEN [s EXCEPT !.player.inventory = removeOne(@, i)]
     ELSE s

removeItemFromRoom(s, itemName) ==
  LET room == s.player.currentRoomId
      P(item) == matchesName(item, itemName)
      i == findIndex(s.rooms[room].items, P)
  IN IF i # 0
     THEN [s EXCEPT !.rooms[room].items = removeOne(@, i)]
     ELSE s

\* The items of every room and of the inventory
holdings(s) ==
  [rooms |-> [r \in DOMAIN s.rooms |-> s.rooms[r].items],
   inventory |-> s.player.inventory]

\* One element of action.itemsToRemove
removeItem(s, itemName) ==
  Let(IF inventoryIndex(s, itemName) # 0
      THEN removeItemFromInventory(s, itemName)
      ELSE removeItemFromRoom(s, itemName),
      LAMBDA u :
        note(u, [op |-> "remove", itemName |-> itemName,
                 room |-> s.player.currentRoomId,
                 before |-> holdings(s), after |-> holdings(u)]))

\* One element of action.itemsToAdd
addItem(s, item) ==
  LET withId == IF item.id = "" THEN [item EXCEPT !.id = uuidv4(s)] ELSE item
      s1 == IF item.id = "" THEN tookId(s) ELSE s
  IN addGameEvent([s1 EXCEPT !.player.inventory = Append(@, withId)],
                  "action", "Acquired " \o item.name)

\* A faulty variant of takeIndex: the first partial match, exact or not
firstPartial(items, itemName) ==
  LET partial(item) == includes(toLowerCase(item.name), toLowerCase(itemName))
  IN findIndex(items, partial)

\* A faulty variant of takeIndex: the first item when none matches
firstWhenNoneNamed(items, itemName) ==
  LET partial(item) == includes(toLowerCase(item.name), toLowerCase(itemName))
  IN IF findIndex(items, partial) # 0 THEN findIndex(items, partial)
     ELSE IF items # <<>> THEN 1
     ELSE 0

\* The index handleTakeItem picks: the exact name first, else a partial match
takeIndex(items, itemName) ==
  LET exact(item) == toLowerCase(item.name) = toLowerCase(itemName)
      partial(item) == includes(toLowerCase(item.name), toLowerCase(itemName))
      i == findIndex(items, exact)
  IN IF i # 0 THEN i ELSE findIndex(items, partial)

handleTakeItem(s, itemName, room) ==
  Let(IF toLowerCase(itemName) = "all" \/ toLowerCase(itemName) = "everything"
      THEN LET itemsToTake == s.rooms[room].items
               s1 == [s EXCEPT !.rooms[room].items = <<>>,
                               !.player.inventory = @ \o itemsToTake]
           IN IF Len(itemsToTake) > 0
              THEN addGameEvent(s1, "action",
                                "Picked up: " \o joinNames(itemsToTake))
              ELSE s1
      ELSE LET i == takeIndex(s.rooms[room].items, itemName)
           IN IF i # 0
              THEN LET item == s.rooms[room].items[i]
                   IN addGameEvent(
                        [s EXCEPT !.rooms[room].items = splice(@, i),
                                  !.player.inventory = Append(@, item)],
                        "action", "Picked up " \o item.name)
              ELSE s,
      LAMBDA u :
        note(u, [op |-> "take", itemName |-> itemName, room |-> room,
                 before |-> holdings(s), after |-> holdings(u)]))

handleUseItem(s, itemName) ==
  LET P(item) == includes(toLowerCase(item.name), toLowerCase(itemName))
      room == s.player.currentRoomId
      i == findIndex(s.player.inventory, P)
      r == findIndex(s.rooms[room].items, P)
  IN Let(IF i # 0
         THEN LET item == s.player.inventory[i]
                  s1 == IF prop(item, "healing") # 0
                        THEN addGameEvent(
                               [s EXCEPT !.player.health =
                                  Min(@ + prop(item, "healing"), s.player.maxHealth)],
                               "action", "Used " \o item.name \o " and restored health")
                        ELSE s
              IN IF item.type = "consumable"
                 THEN [s1 EXCEPT !.player.inventory =
                         IF item.quantity - 1 <= 0 THEN splice(@, i)
                         ELSE [@ EXCEPT ![i].quantity = item.quantity - 1]]
                 ELSE s
         ELSE IF r # 0
         THEN LET item == s.rooms[room].items[r]
              IN IF item.type = "consumable" /\ prop(item, "healing") # 0
                 THEN addGameEvent(
                        [s EXCEPT !.player.health =
                                    Min(@ + prop(item, "healing"), s.player.maxHealth),
                                  !.rooms[room].items = splice(@, r)],
                        "action",
                        "Used " \o item.name \o " from the room and restored health")
                 ELSE IF item.type \in {"key", "weapon", "tool"}
                 THEN addGameEvent(
                        [s EXCEPT !.player.inventory = Append(@, item),
                                  !.rooms[room].items = splice(@, r)],
                        "action", "Picked up and used " \o item.name)
                 ELSE s
         ELSE s,
         LAMBDA u :
           note(u, [op |-> "use", itemName |-> itemName, room |-> room,
                    before |-> holdings(s), after |-> holdings(u),
                    healthBefore |-> s.player.health,
                    health |-> u.player.health]))

-----------------------------------------------------------------------------
(* World graph *)

allDirections == <<"north", "south", "east", "west", "up", "down">>

getOppositeDirection(direction) ==
  LET d == toLowerCase(direction)
  IN CASE d = "north" -> "south"
       [] d = "south" -> "north"
       [] d = "east" -> "west"
       [] d = "west" -> "east"
       [] d = "up" -> "down"
       [] d = "down" -> "up"
       [] OTHER -> "south"

\* The additionalDoors generateNewRoom can draw: 1 to 3 distinct directions,
\* none of them the opposite direction
canDraw(additionalDoors, fromDirection) ==
  /\ Len(additionalDoors) \in 1..3
  /\ \A i \in 1..Len(additionalDoors) :
       /\ additionalDoors[i] \in Range(allDirections)
       /\ additionalDoors[i] # getOppositeDirection(fromDirection)
       /\ \A j \in 1..(i - 1) : additionalDoors[j] # additionalDoors[i]

doorIndex(room, direction) ==
  LET P(d) == toLowerCase(d.direction) = toLowerCase(direction)
  IN findIndex(room.doors, P)

\* The room the Room Generator answered, with the identifiers its handler gives
\* A faulty variant of missingDoors: what the generator left out stays out
noneMissing(doors, allRequiredDoors) == <<>>

\* The required directions that no door of the generator's answer faces
missingDoors(doors, allRequiredDoors) ==
  LET absent(dir) ==
        \A k \in 1..Len(doors) :
          toLowerCase(doors[k].direction) # toLowerCase(dir)
  IN filter(allRequiredDoors, absent)

\* The doors of the answer followed by a door for every missing direction
verified(doors, allRequiredDoors) ==
  LET missing == missingDoors(doors, allRequiredDoors)
  IN doors \o [k \in 1..Len(missing) |->
                [direction |-> missing[k], locked |-> FALSE, leadsTo |-> ""]]

stamped(generated, id, allRequiredDoors) ==
  [generated EXCEPT
     !.id = id,
     !.doors = verified(@, allRequiredDoors),
     !.items = [i \in 1..Len(generated.items) |->
                  [generated.items[i] EXCEPT !.id = id \o "-i" \o ToString(i)]],
     !.monsters = [i \in 1..Len(generated.monsters) |->
                  [generated.monsters[i] EXCEPT !.id = id \o "-m" \o ToString(i)]]]

\* A faulty variant of fallbackRoom: the way back is the only door
deadEnd(s, oppositeDirection, additionalDoors) ==
  [id |-> uuidv4(s), name |-> "Empty Chamber", items |-> <<>>,
   monsters |-> <<>>,
   doors |-> <<[direction |-> oppositeDirection, locked |-> FALSE,
                leadsTo |-> s.player.currentRoomId]>>,
   visited |-> FALSE, specialFeatures |-> <<>>, deadBodies |-> <<>>,
   deadBodiesDefined |-> FALSE]

fallbackRoom(s, oppositeDirection, additionalDoors) ==
  LET backDoor == [direction |-> oppositeDirection, locked |-> FALSE,
                   leadsTo |-> s.player.currentRoomId]
      forward == [i \in 1..Len(additionalDoors) |->
                    [direction |-> additionalDoors[i], locked |-> FALSE,
                     leadsTo |-> ""]]
  IN [id |-> uuidv4(s), name |-> "Empty Chamber", items |-> <<>>,
      monsters |-> <<>>, doors |-> <<backDoor>> \o forward, visited |-> FALSE,
      specialFeatures |-> <<>>, deadBodies |-> <<>>, deadBodiesDefined |-> FALSE]

\* env.generated is <<>> when api.generateRoom throws, else <<its answer>>.
\* The result is the state and the room returned.
generateNewRoom(s, fromDirection, env) ==
  LET oppositeDirection == getOppositeDirection(fromDirection)
  IN IF env.generated # <<>>
     THEN Let(stamped(env.generated[1], uuidv4(s),
                      <<oppositeDirection>> \o env.additionalDoors),
              LAMBDA generatedRoom :
                LET isBack(d) == d.direction = oppositeDirection
                    b == findIndex(generatedRoom.doors, isBack)
                IN [s |-> note(tookId(s),
                               [op |-> "generated", id |-> generatedRoom.id,
                                origin |-> s.player.currentRoomId,
                                back |-> oppositeDirection,
                                additionalDoors |-> env.additionalDoors,
                                answered |-> env.generated[1].doors]),
                    room |-> IF b # 0
                             THEN [generatedRoom EXCEPT
                                     !.doors[b].leadsTo = s.player.currentRoomId]
                             ELSE generatedRoom])
     ELSE Let(fallbackRoom(s, oppositeDirection, env.additionalDoors),
              LAMBDA room :
                [s |-> note(tookId(s),
                            [op |-> "fallback", id |-> room.id,
                             origin |-> s.player.currentRoomId,
                             back |-> oppositeDirection,
                             additionalDoors |-> env.additionalDoors]),
                 room |-> room])

\* A faulty variant of linkRoom: the origin's other doors forget where they led
relinkRoom(s, origin, d, room) ==
  [s EXCEPT !.rooms =
     [@ EXCEPT ![origin].doors =
        [k \in 1..Len(@) |->
           [@[k] EXCEPT !.leadsTo = IF k = d THEN room.id ELSE ""]]]
     @@ (room.id :> room)]

\* rooms.set(newRoom.id, newRoom) after door.leadsTo = newRoom.id
linkRoom(s, origin, d, room) ==
  [s EXCEPT !.rooms = [@ EXCEPT ![origin].doors[d].leadsTo = room.id]
                        @@ (room.id :> room)]

handleMovement(s, direction, env) ==
  LET origin == s.player.currentRoomId
      d == doorIndex(s.rooms[origin], direction)
  IN IF d = 0 THEN s
     ELSE IF s.rooms[origin].doors[d].locked
     THEN addGameEvent(s, "action", "The door to the " \o direction \o " is locked.")
     ELSE
       Let(IF s.rooms[origin].doors[d].leadsTo = ""
           THEN Let(generateNewRoom(s, direction, env),
                    LAMBDA g : linkRoom(g.s, origin, d, g.room))
           ELSE s,
           LAMBDA s1 :
             LET target == s1.rooms[origin].doors[d].leadsTo
                 s2 == [s1 EXCEPT !.player.currentRoomId = target]
             IN Let(IF ~s2.rooms[target].visited
                    THEN gainExperience(
                           [s2 EXCEPT !.rooms[target].visited = TRUE],
                           15 + (s2.player.level * 3),
                           "Discovered " \o s2.rooms[target].name)
                    ELSE s2,
                    LAMBDA s3 :
                      note(addGameEvent(s3, "discovery",
                                        "Entered " \o s3.rooms[target].name),
                           [op |-> "moved", from |-> origin, to |-> target,
                            direction |-> direction,
                            wasLinked |->
                              s.rooms[origin].doors[d].leadsTo # ""])))

-----------------------------------------------------------------------------
(* NPCs *)

isHumanoidNPC(monster) ==
  \/ monster.behavior \in {"friendly", "neutral", "trading"}
  \/ monster.occupation # <<>>
  \/ monster.conversationState # <<>>

getNPCWitnessesInRoom(room) ==
  LET ids == [i \in 1..Len(room.monsters) |-> room.monsters[i].id]
      humanoid(id) ==
        \E i \in 1..Len(room.monsters) :
          room.monsters[i].id = id /\ isHumanoidNPC(room.monsters[i])
  IN filter(ids, humanoid)

\* gameState.emotionalEvents.push(event), cut to the last 50 beyond 100
createEmotionalEvent(s) ==
  [s EXCEPT !.emotionalEvents = IF @ + 1 > 100 THEN 50 ELSE @ + 1]

\* personality_traits?.some(t => t.trait.toLowerCase().includes(a) || ...includes(b))
hasTrait(monster, a, b) ==
  \E i \in 1..Len(monster.personality_traits) :
    \/ includes(toLowerCase(monster.personality_traits[i]), a)
    \/ includes(toLowerCase(monster.personality_traits[i]), b)

\* (monster.health / monster.maxHealth) * 100 < percent
healthBelow(monster, percent) ==
  monster.health * 100 < percent * monster.maxHealth

areAllied(monster1, monster2) ==
  IF monster1.occupation # <<>> /\ monster2.occupation # <<>>
  THEN monster1.occupation = monster2.occupation
  ELSE IF monster1.rapport # <<>> /\ monster2.id \in DOMAIN monster1.rapport[1]
  THEN monster1.rapport[1][monster2.id].level > 20
  ELSE FALSE

isMonsterOutnumbered(s, monster, room) ==
  LET ally(m) == m.id # monster.id
                 /\ (m.behavior = monster.behavior \/ areAllied(m, monster))
      allies == Len(filter(room.monsters, ally))
      playerThreatLevel == IF s.player.equippedItems.weapon # <<>> THEN 2 ELSE 1
  IN playerThreatLevel > allies + 1

\* The conditions answer "yes" or "no", or "throw": the conditions of lines
\* 1848 and 1875 read isOuutnumbered, a name that is declared nowhere, so
\* evaluating it raises a ReferenceError.
checkSurrenderConditions(s, monster, room) ==
  LET isCowardly == hasTrait(monster, "coward", "pragmatic")
      isProud == hasTrait(monster, "proud", "honor")
  IN IF ~isHumanoidNPC(monster) THEN "no"
     ELSE IF healthBelow(monster, 10) /\ ~isProud THEN "yes"
     ELSE IF healthBelow(monster, 25) /\ isCowardly THEN "yes"
     ELSE IF healthBelow(monster, 30) THEN "throw"
     ELSE "no"

checkRetreatConditions(s, monster, room) ==
  LET isCowardly == hasTrait(monster, "coward", "cautious")
      isFearful == /\ monster.currentEmotion # <<>>
                   /\ monster.currentEmotion[1].primary \in {"fearful", "suspicious"}
  IN IF ~isHumanoidNPC(monster) THEN "no"
     ELSE IF healthBelow(monster, 20) THEN "yes"
     ELSE IF healthBelow(monster, 40) /\ (isCowardly \/ isFearful) THEN "yes"
     ELSE IF healthBelow(monster, 50) THEN "throw"
     ELSE IF isFearful /\ monster.currentEmotion[1].intensity > 7 THEN "yes"
     ELSE "no"

\* A rapport record as startConversation and executeSurrender create it
rapportRecord(level, category) == [level |-> level, category |-> category]

\* The monster as executeSurrender leaves it (its emotional event is raised by
\* the caller below): always a success
executeSurrender(s, monster) ==
  LET m1 == IF monster.currentEmotion # <<>>
            THEN [monster EXCEPT
                    !.currentEmotion[1].primary = "fearful",
                    !.currentEmotion[1].intensity = 8]
            ELSE monster
  IN [success |-> TRUE,
      monster |->
        IF m1.rapport # <<>> /\ s.player.name \notin DOMAIN m1.rapport[1]
        THEN [m1 EXCEPT !.rapport[1] =
                @ @@ (s.player.name :> rapportRecord(-10, "unfriendly"))]
        ELSE m1]

\* A faulty variant of executeRetreat: the chance not scaled by the health
retreatUnscaled(monster, room, env) ==
  LET success == env.retreats * 10 < (IF Len(room.doors) > 1 THEN 7 ELSE 3) * 100
  IN [success |-> success,
      monster |-> IF success /\ monster.currentEmotion # <<>>
                  THEN [monster EXCEPT !.currentEmotion[1].primary = "fearful",
                                       !.currentEmotion[1].intensity = 9]
                  ELSE monster]

\* env.retreats is the draw of Math.random(), in hundredths; retreatChance is
\* in tenths.  draw / 100 < (retreatChance / 10) * (health / maxHealth),
\* both sides multiplied by 1000 * maxHealth.
executeRetreat(monster, room, env) ==
  LET hasEscapeRoute == Len(room.doors) > 1
      retreatChance == IF hasEscapeRoute THEN 7 ELSE 3
      success == env.retreats * 10 * monster.maxHealth
                   < retreatChance * monster.health * 100
  IN [success |-> success,
      monster |-> IF success /\ monster.currentEmotion # <<>>
                  THEN [monster EXCEPT !.currentEmotion[1].primary = "fearful",
                                       !.currentEmotion[1].intensity = 9]
                  ELSE monster]

\* A faulty variant of handleCombatDecision: the retreat conditions first
retreatBeforeSurrender(s, monster, room, env) ==
  LET surrender == checkSurrenderConditions(s, monster, room)
      retreat == checkRetreatConditions(s, monster, room)
  IN IF retreat = "throw" THEN [type |-> "throw"]
     ELSE IF retreat = "yes"
     THEN [type |-> "retreat"] @@ executeRetreat(monster, room, env)
     ELSE IF surrender = "throw" THEN [type |-> "throw"]
     ELSE IF surrender = "yes"
     THEN [type |-> "surrender"] @@ executeSurrender(s, monster)
     ELSE [type |-> "fight", success |-> TRUE, monster |-> monster]

\* The decision for a monster that survived the hit: its type, its success and
\* the monster as the decision left it; type "throw" when a condition raises.
handleCombatDecision(s, monster, room, env) ==
  LET surrender == checkSurrenderConditions(s, monster, room)
      retreat == checkRetreatConditions(s, monster, room)
  IN IF surrender = "throw" THEN [type |-> "throw"]
     ELSE IF surrender = "yes"
     THEN [type |-> "surrender"] @@ executeSurrender(s, monster)
     ELSE IF retreat = "throw" THEN [type |-> "throw"]
     ELSE IF retreat = "yes"
     THEN [type |-> "retreat"] @@ executeRetreat(monster, room, env)
     ELSE [type |-> "fight", success |-> TRUE, monster |-> monster]

-----------------------------------------------------------------------------
(* Damage *)

\* Math.floor(damage * (1 + modifier)), the modifier in hundredths
modified(damage, modifier) == (damage * (100 + modifier)) \div 100

\* A faulty variant of calculatePlayerDamage: floored once, at the end
damageFlooredOnce(s) ==
  LET statuses == s.player.statuses
      carries(i) == /\ has(effectsOf(statuses[i]), "damageModifier")
                    /\ effectsOf(statuses[i]).damageModifier # 0
      N[i \in 0..Len(statuses)] ==
        IF i = 0 THEN 10
        ELSE IF carries(i)
        THEN N[i - 1] * (100 + effectsOf(statuses[i]).damageModifier)
        ELSE N[i - 1]
      D[i \in 0..Len(statuses)] ==
        IF i = 0 THEN 1 ELSE IF carries(i) THEN D[i - 1] * 100 ELSE D[i - 1]
  IN N[Len(statuses)] \div D[Len(statuses)]

calculatePlayerDamage(s) ==
  LET weapon == s.player.equippedItems.weapon
      baseDamage == 10 + (IF weapon # <<>> THEN prop(weapon[1], "damage") ELSE 0)
      statuses == s.player.statuses
      F[i \in 0..Len(statuses)] ==
        IF i = 0 THEN baseDamage
        ELSE IF has(effectsOf(statuses[i]), "damageModifier")
                /\ effectsOf(statuses[i]).damageModifier # 0
        THEN modified(F[i - 1], effectsOf(statuses[i]).damageModifier)
        ELSE F[i - 1]
  IN F[Len(statuses)]

calculateDamageTaken(s, incomingDamage) ==
  LET statuses == s.player.statuses
      F[i \in 0..Len(statuses)] ==
        IF i = 0 THEN incomingDamage
        ELSE IF has(effectsOf(statuses[i]), "damageTakenModifier")
                /\ effectsOf(statuses[i]).damageTakenModifier # 0
        THEN modified(F[i - 1], effectsOf(statuses[i]).damageTakenModifier)
        ELSE F[i - 1]
  IN F[Len(statuses)]

-----------------------------------------------------------------------------
(* Corpses *)

\* generateLootForNPC: the items of the occupation (here those of a guard), then
\* the random accessories, food and trinkets, of which env.finds stands for the
\* draws: <<>> when every draw fails, else the items drawn.
generateLootForNPC(npc, env) ==
  LET guard == /\ npc.occupation # <<>>
               /\ \/ includes(toLowerCase(npc.occupation[1]), "guard")
                  \/ includes(toLowerCase(npc.occupation[1]), "soldier")
      item(name, type) ==
        [id |-> "", name |-> name, type |-> type, stackable |-> FALSE,
         quantity |-> 1, properties |-> <<>>]
  IN (IF guard THEN <<item("Guard's Badge", "misc")>> ELSE <<>>)
     \o (IF guard THEN <<item("Leather Armor", "armor")>> ELSE <<>>)
     \o env.finds

\* The DeadBody, its generated possessions taking the identifiers after s.nextId
newBody(s, monster, room, causeOfDeath, generated) ==
  [id |-> "u" \o ToString(s.nextId + Len(generated) + 1),
   originalNPCId |-> monster.id,
   name |-> monster.name,
   condition |-> "fresh",
   timeOfDeath |-> s.now,
   causeOfDeath |-> causeOfDeath,
   decompositionLevel |-> 0,
   searchable |-> TRUE,
   witnessedByNPCs |-> getNPCWitnessesInRoom(s.rooms[room]),
   originalLoot |-> monster.loot,
   originalPossessions |->
     monster.possessions \o
       [i \in 1..Len(generated) |->
          [generated[i] EXCEPT !.id = "u" \o ToString(s.nextId + i)]],
   searchedBy |-> <<>>,
   roomId |-> room]

createPersistentBody(s, monster, room, causeOfDeath, env) ==
  Let(newBody(s, monster, room, causeOfDeath, generateLootForNPC(monster, env)),
      LAMBDA deadBody :
        note(addGameEvent(
               [s EXCEPT
                  !.nextId = @ + Len(generateLootForNPC(monster, env)) + 1,
                  !.rooms[room].deadBodiesDefined = TRUE,
                  !.rooms[room].deadBodies = Append(@, deadBody.id),
                  !.bodies = @ @@ (deadBody.id :> deadBody),
                  !.deadBodies = @ \cup {deadBody.id}],
               "system",
               "The body of " \o monster.name \o " lies motionless on the ground."),
             [op |-> "body", id |-> deadBody.id, npc |-> monster.id,
              room |-> room]))

-----------------------------------------------------------------------------
(* Combat *)

\* A faulty variant of xpGain: no minimum
xpGainUnfloored(monster) ==
  monster.maxHealth * 2

\* 2 XP per max HP, minimum 5
xpGain(monster) ==
  Max(5, monster.maxHealth * 2)

\* The branch of handleAttack for monster.health <= 0; s is the state after
\* the hit, monster the monster after it
defeat(s, i, monster, room, env, damage) ==
  Let(gainExperience(
        createPersistentBody(
          addGameEvent([s EXCEPT !.rooms[room].monsters = splice(@, i)],
                       "combat", monster.name \o " has been defeated!"),
          monster, room, "killed by player", env),
        xpGain(monster),
        "Defeated " \o monster.name),
      LAMBDA s5 :
        note(createEmotionalEvent(s5),
             [op |-> "defeated", npc |-> monster.id, room |-> room,
              damage |-> damage,
              healthBefore |-> monster.health + damage,
              health |-> monster.health,
              maxHealth |-> monster.maxHealth,
              xpBefore |-> s.player.experience,
              xpAfter |-> s5.player.experience]))

\* The counter-attack of a monster that fights on
counterAttack(s, monster, actualDamageTaken) ==
  LET s3 == [s EXCEPT !.player.health = @ - actualDamageTaken]
      s4 == IF actualDamageTaken > 0
            THEN addGameEvent(s3, "combat", monster.name \o " deals damage to you!")
            ELSE s3
  IN note(IF s3.player.health <= 0
          THEN addGameEvent([s4 EXCEPT !.gameOver = TRUE],
                            "system", "You have been defeated!")
          ELSE s4,
          [op |-> "counterattack", npc |-> monster.id,
           damage |-> actualDamageTaken, health |-> s3.player.health])

\* The branch of handleAttack for a monster that survived the hit
survive(s, i, monster, room, decision) ==
  IF decision.type = "throw" THEN [s EXCEPT !.thrown = TRUE]
  ELSE IF decision.type = "retreat"
  THEN LET s3 == addGameEvent(s, "combat", monster.name \o
                   IF decision.success
                   THEN " turns and flees through one of the exits!"
                   ELSE " tries to flee but you block their escape!")
       IN note(IF decision.success
               THEN createEmotionalEvent(
                      [s3 EXCEPT !.rooms[room].monsters = splice(@, i)])
               ELSE s3,
               [op |-> "retreat", npc |-> monster.id,
                success |-> decision.success])
  ELSE IF decision.type = "surrender"
  THEN LET m1 == [decision.monster EXCEPT !.behavior = "neutral"]
           m2 == IF m1.currentEmotion # <<>>
                 THEN [m1 EXCEPT !.currentEmotion[1].primary = "fearful",
                                 !.currentEmotion[1].intensity = 8]
                 ELSE m1
       IN note(addGameEvent(
                 createEmotionalEvent([s EXCEPT !.rooms[room].monsters[i] = m2]),
                 "combat", monster.name \o " surrenders."),
               [op |-> "surrender", npc |-> monster.id])
  ELSE counterAttack(s, monster, calculateDamageTaken(s, monster.damage))

\* handleAttack once the target is found at index i and the damage is known
strike(s, i, monster, room, env, damage) ==
  Let(note(IF damage > 0
           THEN addGameEvent([s EXCEPT !.rooms[room].monsters[i] = monster],
                             "combat", "Dealt damage to " \o monster.name)
           ELSE [s EXCEPT !.rooms[room].monsters[i] = monster],
           [op |-> "attack", npc |-> monster.id, room |-> room,
            damage |-> damage, healthBefore |-> monster.health + damage,
            unarmed |-> s.player.equippedItems.weapon = <<>>,
            modifiers |-> {k \in 1..Len(s.player.statuses) :
                            /\ has(effectsOf(s.player.statuses[k]), "damageModifier")
                            /\ effectsOf(s.player.statuses[k]).damageModifier # 0}]),
      LAMBDA s2 :
        IF monster.health <= 0
        THEN defeat(s2, i, monster, room, env, damage)
        ELSE survive(note(s2, [op |-> "survived", npc |-> monster.id,
                               room |-> room, monster |-> monster,
                               doors |-> Len(s2.rooms[room].doors),
                               draw |-> env.retreats]),
                     i, monster, room,
                     handleCombatDecision(s2, monster, s2.rooms[room], env)))

\* env.retreats and env.finds are the random draws of this attack
handleAttack(s, targetName, room, env) ==
  LET P(m) == includes(toLowerCase(m.name), toLowerCase(targetName))
  IN Let(findIndex(s.rooms[room].monsters, P),
         LAMBDA i :
           IF i = 0 THEN s
           ELSE Let(calculatePlayerDamage(s),
                    LAMBDA damage :
                      strike(s, i,
                             [s.rooms[room].monsters[i] EXCEPT
                                !.health = @ - damage],
                             room, env, damage)))

-----------------------------------------------------------------------------
(* Corpse lifecycle *)

\* The condition and level updateBodyDecomposition computes for a body at the
\* clock value s.now (elapsed time in half hours: 2 h = 4, 24 h = 48, 168 h = 336)
decomposed(body, clock) ==
  LET elapsed == clock - body.timeOfDeath
  IN IF elapsed > 336
     THEN [condition |-> "skeletal", level |-> Min(10, (elapsed \div 336) + 7)]
     ELSE IF elapsed > 48
     THEN [condition |-> "decomposing", level |-> Min(7, (elapsed \div 48) + 2)]
     ELSE IF elapsed > 4
     THEN [condition |-> "recently_dead", level |-> Min(2, elapsed \div 4)]
     ELSE [condition |-> body.condition, level |-> body.decompositionLevel]

\* A faulty variant of decompose: the body stays searchable
decomposeSearchable(s, id) ==
  LET body == s.bodies[id]
      new == decomposed(body, s.now)
  IN [s EXCEPT !.bodies[id] =
        [body EXCEPT !.condition = new.condition,
                     !.decompositionLevel = new.level]]

\* The body of the loop of updateBodyDecomposition
decompose(s, id) ==
  LET body == s.bodies[id]
      new == decomposed(body, s.now)
  IN IF new.condition # body.condition \/ new.level # body.decompositionLevel
     THEN [s EXCEPT !.bodies[id] =
             [body EXCEPT !.condition = new.condition,
                          !.decompositionLevel = new.level,
                          !.searchable = IF new.level > 7 THEN FALSE ELSE @]]
     ELSE s

\* A faulty variant of removeDecomposed: the registry keeps the bodies
leaveRegistered(s, room) ==
  LET stays(id) == s.bodies[id].decompositionLevel < 10
  IN [s EXCEPT !.rooms[room].deadBodies = filter(@, stays)]

\* A faulty variant of removeDecomposed: the room's list keeps the bodies
leaveListed(s, room) ==
  LET gone(id) == s.bodies[id].decompositionLevel >= 10
      remove(u, id) == [u EXCEPT !.deadBodies = @ \ {id}]
  IN forEach(s, filter(s.rooms[room].deadBodies, gone), remove)

\* The end of updateBodyDecomposition: the bodies at level 10 leave the room's
\* list and the registry
removeDecomposed(s, room) ==
  LET gone(id) == s.bodies[id].decompositionLevel >= 10
      stays(id) == s.bodies[id].decompositionLevel < 10
      remove(u, id) ==
        note(addGameEvent(
               [u EXCEPT !.deadBodies = @ \ {id}], "system",
               "The remains of " \o s.bodies[id].name
                 \o " have completely decomposed and are no longer visible."),
             [op |-> "decomposed", id |-> id, room |-> room])
  IN forEach([s EXCEPT !.rooms[room].deadBodies = filter(@, stays)],
             filter(s.rooms[room].deadBodies, gone), remove)

\* A body that no list and no registry entry refers to is no longer state
collected(s) ==
  LET live == s.deadBodies \cup
              UNION {Range(s.rooms[r].deadBodies) : r \in DOMAIN s.rooms}
  IN [s EXCEPT !.bodies = [id \in live |-> s.bodies[id]]]

updateBodyDecomposition(s) ==
  LET room == s.player.currentRoomId
  IN IF ~s.rooms[room].deadBodiesDefined
     THEN [s EXCEPT !.bodyTicks = @ + 1]
     ELSE collected(removeDecomposed(
            forEach([s EXCEPT !.bodyTicks = @ + 1],
                    s.rooms[room].deadBodies, decompose),
            room))

\* A faulty variant of searchedBefore: nobody is remembered
searchedByNobody(s, body) == FALSE

\* body.searchedBy.includes(this.gameState.player.name)
searchedBefore(s, body) == s.player.name \in Range(body.searchedBy)

\* env.search is <<>> when api.searchBody throws, else <<its answer>>, a record
\* with success, itemsFound and witnessesReact.  The result is the state and
\* the value returned.
searchBody(s, bodyId, env) ==
  LET room == s.player.currentRoomId
      list == s.rooms[room].deadBodies
      P(id) == id = bodyId
               \/ includes(toLowerCase(s.bodies[id].name), toLowerCase(bodyId))
      i == IF s.rooms[room].deadBodiesDefined THEN findIndex(list, P) ELSE 0
      id == list[i]
      body == s.bodies[id]
      refused(message) ==
        [s |-> s, success |-> FALSE, items |-> <<>>, message |-> message,
         body |-> IF i # 0 THEN id ELSE ""]
      found(u, item) ==
        addGameEvent([u EXCEPT !.player.inventory = Append(@, item)],
                     "action", "Found " \o item.name \o " on the body")
      react(u) ==
        IF env.search[1].witnessesReact
           /\ getNPCWitnessesInRoom(u.rooms[room]) # <<>>
        THEN createEmotionalEvent(u)
        ELSE u
      foundItems == body.originalLoot \o body.originalPossessions
      message == IF Len(foundItems) > 0
                 THEN "You search the body and find: " \o joinNames(foundItems)
                 ELSE "You search the body but find nothing of value."
  IN IF ~s.rooms[room].deadBodiesDefined THEN refused("No bodies to search here.")
     ELSE IF i = 0 THEN refused("Body not found.")
     ELSE IF ~body.searchable
     THEN refused("The body is too decomposed to search effectively.")
     ELSE IF searchedBefore(s, body)
     THEN refused("You have already searched the body.")
     ELSE IF env.search # <<>>
     THEN IF env.search[1].success
          THEN [s |-> note(addGameEvent(
                             react(forEach(
                               [s EXCEPT !.bodies[id].searchedBy =
                                            Append(@, s.player.name)],
                               env.search[1].itemsFound, found)),
                             "action", "searchDescription"),
                           [op |-> "searched", id |-> id, by |-> "narrator",
                            items |-> env.search[1].itemsFound]),
                success |-> TRUE, items |-> env.search[1].itemsFound,
                message |-> "searchDescription", body |-> id]
          ELSE refused("searchDescription")
     ELSE [s |-> note(addGameEvent(
                        [s EXCEPT
                           !.bodies[id].searchedBy = Append(@, s.player.name),
                           !.bodies[id].originalLoot = <<>>,
                           !.bodies[id].originalPossessions = <<>>,
                           !.rooms[room].items = @ \o foundItems],
                        "action", message),
                      [op |-> "searched", id |-> id, by |-> "fallback",
                       items |-> foundItems]),
           success |-> TRUE, items |-> foundItems, message |-> message,
           body |-> id]

\* One element of action.bodiesToSearch: handleSearchAction, and the event
\* executeLLMAction logs with its message
handleSearchAction(s, target, env) ==
  LET room == s.rooms[s.player.currentRoomId]
  IN IF room.deadBodiesDefined /\ Len(room.deadBodies) > 0
     THEN Let(searchBody(s, target, env),
              LAMBDA result :
                addGameEvent(
                  note(result.s,
                       [op |-> "search", target |-> target,
                        body |-> result.body,
                        success |-> result.success, items |-> result.items,
                        narrator |-> env.search,
                        already |-> /\ result.body # ""
                                    /\ s.player.name \in
                                         Range(s.bodies[result.body].searchedBy),
                        unchanged |->
                          /\ result.s.player.inventory = s.player.inventory
                          /\ result.s.rooms[room.id].items = room.items
                          /\ result.s.bodies = s.bodies]),
                  "action", result.message))
     ELSE addGameEvent(s, "action", "Nothing to search here.")

-----------------------------------------------------------------------------
(* Conversations and rapport *)

\* String.prototype.split(' ')
RECURSIVE split(_)
split(str) ==
  IF ~includes(str, " ") THEN <<str>>
  ELSE LET k == CHOOSE i \in 1..Len(str) :
                  /\ SubSeq(str, i, i) = " "
                  /\ \A j \in 1..(i - 1) : SubSeq(str, j, j) # " "
       IN <<SubSeq(str, 1, k - 1)>> \o split(SubSeq(str, k + 1, Len(str)))

\* Whether some word of the monster's name occurs in the text
namedIn(monster, details) ==
  \E w \in Range(split(toLowerCase(monster.name))) :
    includes(toLowerCase(details), w)

\* The name extractTalkTarget returns, as <<>> (null) or <<name>>
extractTalkTarget(s, details) ==
  LET P(m) == isHumanoidNPC(m) /\ namedIn(m, details)
      i == findIndex(currentRoomOf(s).monsters, P)
  IN IF i = 0 THEN <<>> ELSE <<currentRoomOf(s).monsters[i].name>>

\* A faulty variant of categoryOf: every threshold is exclusive
categoryAbove(level) ==
  IF level > 80 THEN "devoted"
  ELSE IF level > 40 THEN "close_friend"
  ELSE IF level > 20 THEN "ally"
  ELSE IF level > 5 THEN "friendly"
  ELSE IF level > -4 THEN "neutral"
  ELSE IF level > -19 THEN "unfriendly"
  ELSE IF level > -39 THEN "hostile"
  ELSE IF level > -79 THEN "enemy"
  ELSE "mortal_enemy"

\* The category updatePlayerRapport gives a level
categoryOf(level) ==
  IF level >= 80 THEN "devoted"
  ELSE IF level >= 40 THEN "close_friend"
  ELSE IF level >= 20 THEN "ally"
  ELSE IF level >= 5 THEN "friendly"
  ELSE IF level >= -4 THEN "neutral"
  ELSE IF level >= -19 THEN "unfriendly"
  ELSE IF level >= -39 THEN "hostile"
  ELSE IF level >= -79 THEN "enemy"
  ELSE "mortal_enemy"

getPlayerRapport(s, npcId) ==
  LET P(m) == m.id = npcId
      i == findIndex(currentRoomOf(s).monsters, P)
      npc == currentRoomOf(s).monsters[i]
  IN IF i = 0 \/ npc.rapport = <<>> THEN 0
     ELSE IF s.player.name \in DOMAIN npc.rapport[1]
     THEN npc.rapport[1][s.player.name].level
     ELSE 0

updatePlayerRapport(s, npcId, change) ==
  LET room == s.player.currentRoomId
      P(m) == m.id = npcId
      i == findIndex(s.rooms[room].monsters, P)
      npc == s.rooms[room].monsters[i]
  IN IF i = 0 \/ npc.rapport = <<>> THEN s
     ELSE IF s.player.name \in DOMAIN npc.rapport[1]
     THEN LET level == Max(-100, Min(100,
                         npc.rapport[1][s.player.name].level + change))
          IN note([s EXCEPT !.rooms[room].monsters[i].rapport[1][s.player.name] =
                              rapportRecord(level, categoryOf(level))],
                  [op |-> "rapport", npc |-> npcId, change |-> change])
     ELSE s

\* env.started tells whether api.startConversation answers (else it throws and
\* the method's own catch leaves the NPC as it was)
startConversation(s, i, env) ==
  LET room == s.player.currentRoomId
      npc == s.rooms[room].monsters[i]
      emotion == IF npc.currentEmotion = <<>>
                 THEN <<[primary |-> "curious", intensity |-> 5]>>
                 ELSE npc.currentEmotion
      rapport == IF npc.rapport = <<>> THEN <<>> ELSE npc.rapport[1]
  IN IF env.started
     THEN note([s EXCEPT !.rooms[room].monsters[i] =
                  [npc EXCEPT
                     !.conversationState = <<[isActive |-> TRUE, turn |-> 0]>>,
                     !.currentEmotion = emotion,
                     !.rapport =
                        IF s.player.name \notin DOMAIN rapport
                        THEN <<rapport @@
                               (s.player.name :> rapportRecord(0, "neutral"))>>
                        ELSE <<rapport>>]],
               [op |-> "startConversation", npc |-> npc.id])
     ELSE s

\* env.conversation is <<>> when api.processConversation throws, else <<its
\* answer>>: rapport_change, emotional_change (<<>> or <<an emotion>>) and
\* memory_formed (a flag).
\* updateConversationState
updateConversationState(s, i, response) ==
  LET room == s.player.currentRoomId
      npc == s.rooms[room].monsters[i]
      s2 == [s EXCEPT !.rooms[room].monsters[i].conversationState[1].turn = @ + 1]
  IN IF npc.conversationState = <<>> THEN s
     ELSE IF response.memory_formed
     THEN addGameEvent(s2, "system", "Memory formed for NPC")
     ELSE s2

\* handleTalkAction from the answer of api.processConversation on
conversed(s, i, response) ==
  LET room == s.player.currentRoomId
      npc == s.rooms[room].monsters[i]
      logged(u) ==
        addGameEvent(addGameEvent(u, "action", "You talk to " \o npc.name),
                     "action", npc.name \o ": npc_response")
      rapport(u) ==
        IF response.rapport_change # 0
        THEN updatePlayerRapport(u, npc.id, response.rapport_change)
        ELSE u
      emotion(u) ==
        IF response.emotional_change # <<>>
        THEN [u EXCEPT !.rooms[room].monsters[i].currentEmotion =
                response.emotional_change]
        ELSE u
  IN note([emotion(rapport(logged(updateConversationState(s, i, response))))
             EXCEPT !.currentTurn = @ + 1],
          [op |-> "talk", result |-> "talked", npc |-> npc.id])

handleTalkAction(s, details, env) ==
  LET room == s.player.currentRoomId
      monsters == s.rooms[room].monsters
      targetName == extractTalkTarget(s, details)
      named(m) == isHumanoidNPC(m)
                  /\ includes(toLowerCase(m.name), toLowerCase(targetName[1]))
      i == IF targetName # <<>> THEN findIndex(monsters, named)
           ELSE IF Len(monsters) = 1 /\ isHumanoidNPC(monsters[1]) THEN 1
           ELSE 0
      begun(u) == IF monsters[i].conversationState = <<>>
                  THEN startConversation(u, i, env)
                  ELSE u
  IN IF i = 0 THEN note(s, [op |-> "talk", result |-> "nobody"])
     ELSE IF env.conversation = <<>>
     THEN note([begun(s) EXCEPT !.thrown = TRUE],
               [op |-> "talk", result |-> "failed"])
     ELSE conversed(begun(s), i, env.conversation[1])

-----------------------------------------------------------------------------
(* Crafting *)

\* Array.prototype.join(' and ')
RECURSIVE joinAnd(_)
joinAnd(names) ==
  IF names = <<>> THEN ""
  ELSE IF Len(names) = 1 THEN names[1]
  ELSE names[1] \o " and " \o joinAnd(Tail(names))

\* env.crafting is "throw" when api.attemptCrafting throws; otherwise
\* env.crafted is its answer, <<>> (null) or <<the crafted item>>
handleCrafting(s, itemNames, env) ==
  LET named(item) == includes(toLowerCase(itemNames), toLowerCase(item.name))
      items == filter(s.player.inventory, named)
      used(u, item) ==
        LET P(x) == x.id = item.id
            k == findIndex(u.player.inventory, P)
        IN IF k # 0 THEN [u EXCEPT !.player.inventory = splice(@, k)] ELSE u
  IN IF Len(items) < 2
     THEN addGameEvent(s, "action", "You need at least two items to craft something.")
     ELSE IF env.crafting = "throw"
     THEN addGameEvent(s, "action", "The crafting attempt failed mysteriously.")
     ELSE IF env.crafted = <<>>
     THEN addGameEvent(s, "action", "These items cannot be combined.")
     ELSE gainExperience(
            addGameEvent(
              [forEach(s, items, used) EXCEPT
                 !.player.inventory = Append(@, env.crafted[1])],
              "action", "Successfully crafted " \o env.crafted[1].name \o "!"),
            10 + (s.player.level * 2), "Successful crafting")

-----------------------------------------------------------------------------
(* One intent *)

\* A faulty variant of applyCustomEffects: the status tick run once per intent
\* instead of once per turn
tickingEffects(s, effects) ==
  LET effect(u, e) == addGameEvent(u, e.type, e.message)
  IN updateStatusEffects(forEach(s, effects, effect))

applyCustomEffects(s, effects) ==
  LET effect(u, e) == addGameEvent(u, e.type, e.message)
  IN forEach(s, effects, effect)

\* A faulty variant of executeLLMAction: the move is made before the pickups
executeMoveFirst(s, action, env) ==
  LET currentRoom == s.player.currentRoomId
      begun(u, subStep) == note(u, [op |-> "step", step |-> subStep])
      take(u, itemName) ==
        handleTakeItem(begun(u, "itemsToTake"), itemName, currentRoom)
      moved(u) == IF action.moveDirection # ""
                  THEN handleMovement(begun(u, "moveDirection"),
                                      action.moveDirection, env)
                  ELSE u
  IN forEach(moved(s), action.itemsToTake, take)

\* env holds what the collaborators and Math.random() answer while the intent
\* is applied; retreats and finds are drawn once per attack target.
executeLLMAction(s, action, env) ==
  LET currentRoom == s.player.currentRoomId
      begun(u, subStep) == note(u, [op |-> "step", step |-> subStep])
      remove(u, itemName) == removeItem(begun(u, "itemsToRemove"), itemName)
      add(u, item) == addItem(begun(u, "itemsToAdd"), item)
      take(u, itemName) ==
        handleTakeItem(begun(u, "itemsToTake"), itemName, currentRoom)
      use(u, itemName) == handleUseItem(begun(u, "itemsToUse"), itemName)
      attack(u, k) ==
        handleAttack(begun(u, "targetsToAttack"), action.targetsToAttack[k],
                     currentRoom,
                     [retreats |-> env.retreats[k], finds |-> env.finds[k]])
      search(u, target) ==
        handleSearchAction(begun(u, "bodiesToSearch"), target, env)
      changed(u) == IF action.stateChanges # <<>>
                    THEN applyStateChanges(begun(u, "stateChanges"),
                                           action.stateChanges[1])
                    ELSE u
      moved(u) == IF action.moveDirection # ""
                  THEN handleMovement(begun(u, "moveDirection"),
                                      action.moveDirection, env)
                  ELSE u
      crafted(u) == IF ~u.thrown /\ action.itemsToCraft # <<>>
                    THEN handleCrafting(begun(u, "itemsToCraft"),
                                        joinAnd(action.itemsToCraft[1]), env)
                    ELSE u
      effects(u) == IF u.thrown \/ action.customEffects = <<>> THEN u
                    ELSE applyCustomEffects(begun(u, "customEffects"),
                                            action.customEffects)
  IN effects(
       forEach(
         crafted(
           forEach(
             moved(
               forEach(
                 forEach(
                   forEach(
                     forEach(changed(s), action.itemsToRemove, remove),
                     action.itemsToAdd, add),
                   action.itemsToTake, take),
                 action.itemsToUse, use)),
             [k \in 1..Len(action.targetsToAttack) |-> k], attack)),
         action.bodiesToSearch, search))

-----------------------------------------------------------------------------
(* Reading the player's text *)

\* keywords.some(keyword => details.toLowerCase().includes(keyword))
mentions(details, keywords) ==
  \E keyword \in keywords : includes(toLowerCase(details), keyword)

isTalkAction(details) ==
  mentions(details, {"talk", "speak", "chat", "greet", "hello", "hi",
                     "converse", "say"})

isMovementAction(details) ==
  mentions(details, {"go", "move", "walk", "run", "enter", "through", "door",
                     "exit", "head"})

\* The direction extractDirection returns, "" for null
extractDirection(s, details) ==
  LET named(dir) == includes(toLowerCase(details), dir)
      i == findIndex(allDirections, named)
  IN IF i # 0 THEN allDirections[i]
     ELSE IF mentions(details, {"door", "exit"})
             /\ Len(currentRoomOf(s).doors) = 1
     THEN currentRoomOf(s).doors[1].direction
     ELSE ""

\* action.type === 'talk' || (action.type === 'custom' && isTalkAction(details))
talks(a) == a.type = "talk" \/ (a.type = "custom" /\ isTalkAction(a.details))

\* action.details || action.type
shown(a) == IF a.details # "" THEN a.details ELSE a.type

-----------------------------------------------------------------------------
(* The construction of the engine *)

startingRoom ==
  [id |-> "start", name |-> "Dungeon Entrance",
   items |-> <<[id |-> "torch", name |-> "Rusty Torch", type |-> "misc",
                stackable |-> FALSE, quantity |-> 1,
                properties |-> [light_radius |-> 5]],
               [id |-> "bread", name |-> "Stale Bread", type |-> "consumable",
                stackable |-> TRUE, quantity |-> 2,
                properties |-> [healing |-> 5]]>>,
   monsters |-> <<>>,
   doors |-> <<[direction |-> "north", locked |-> FALSE, leadsTo |-> ""],
               [direction |-> "east", locked |-> FALSE, leadsTo |-> ""],
               [direction |-> "west", locked |-> FALSE, leadsTo |-> ""]>>,
   visited |-> TRUE,
   specialFeatures |-> <<"ancient_inscription", "dripping_water">>,
   deadBodies |-> <<>>, deadBodiesDefined |-> FALSE]

createPlayer(name, startingRoomId) ==
  [name |-> name, health |-> 100, maxHealth |-> 100, level |-> 1,
   experience |-> 0, experienceToNext |-> 100, inventory |-> <<>>,
   equippedItems |-> [weapon |-> <<>>], statuses |-> <<>>,
   currentRoomId |-> startingRoomId]

\* What a call remembers of the state it started in
snapshot(s) ==
  [player |-> s.player, rooms |-> s.rooms, bodies |-> s.bodies,
   deadBodies |-> s.deadBodies, currentTurn |-> s.currentTurn,
   gameLog |-> s.gameLog, gameOver |-> s.gameOver,
   statusTicks |-> s.statusTicks, bodyTicks |-> s.bodyTicks,
   expired |-> s.expired]

\* A call of processAction that has not been made or has returned
notCalled ==
  [at |-> "idle", action |-> [type |-> "custom", details |-> ""],
   origin |-> "", door |-> 0, direction |-> "", intents |-> <<>>]

Init ==
  /\ player = createPlayer("Hero", "start")
  /\ rooms = ("start" :> startingRoom)
  /\ bodies = <<>>
  /\ deadBodies = {}
  /\ currentTurn = 0
  /\ gameLog = <<[type |-> "system", message |-> "Hero enters the dungeon..."]>>
  /\ gameOver = FALSE
  /\ emotionalEvents = 0
  /\ now = 0
  /\ nextId = 0
  /\ pc = "idle"
  /\ playerAction = [type |-> "custom", details |-> ""]
  /\ intents = <<>>
  /\ calls = 0
  /\ executed = 0
  /\ outcome = "none"
  /\ statusTicks = 0
  /\ bodyTicks = 0
  /\ applied = {}
  /\ expired = {}
  /\ lastOp = <<>>
  /\ pre = snapshot(GS)
  /\ overlap = [call |-> [k \in 1..2 |-> notCalled], completed |-> 0]

-----------------------------------------------------------------------------
(* processAction, step by step *)

\* The game state after a step that left the state record s
Commit(s) ==
  /\ player' = s.player
  /\ rooms' = s.rooms
  /\ bodies' = s.bodies
  /\ deadBodies' = s.deadBodies
  /\ currentTurn' = s.currentTurn
  /\ gameLog' = s.gameLog
  /\ gameOver' = s.gameOver
  /\ emotionalEvents' = s.emotionalEvents
  /\ nextId' = s.nextId
  /\ statusTicks' = s.statusTicks
  /\ bodyTicks' = s.bodyTicks
  /\ applied' = s.applied
  /\ expired' = s.expired
  /\ lastOp' = s.ops

\* The map stays within the model's bound
bounded(s) == Cardinality(DOMAIN s.rooms) <= MaxRooms

\* The room generated ahead of the interpreter's call, when the text names a
\* direction whose door is unlocked and leads nowhere yet
preGenerate(s, a, env) ==
  LET direction == extractDirection(s, a.details)
      origin == s.player.currentRoomId
      d == doorIndex(s.rooms[origin], direction)
  IN IF /\ a.type = "move" \/ (a.type = "custom" /\ isMovementAction(a.details))
        /\ direction # ""
        /\ d # 0
        /\ ~s.rooms[origin].doors[d].locked
        /\ s.rooms[origin].doors[d].leadsTo = ""
     THEN Let(generateNewRoom(s, direction, env),
              LAMBDA g : linkRoom(g.s, origin, d, g.room))
     ELSE s

\* env.additionalDoors is a draw generateNewRoom can make for the direction
wellDrawn(env, direction) ==
  direction = "" \/ canDraw(env.additionalDoors, direction)

\* The call up to its await of api.processPlayerAction
ProcessAction(Actions, Envs) ==
  /\ pc = "idle"
  /\ calls < MaxCalls
  /\ \E a \in Actions, env \in Envs :
       /\ ~talks(a)
       /\ wellDrawn(env, extractDirection(GS, a.details))
       /\ bounded(preGenerate(GS, a, env))
       /\ Commit(preGenerate(GS, a, env))
       /\ playerAction' = a
  /\ pc' = "interpreter"
  /\ intents' = <<>>
  /\ calls' = calls + 1
  /\ executed' = 0
  /\ pre' = snapshot(GS)
  /\ outcome' = "pending"
  /\ UNCHANGED <<now, overlap>>

\* The catch block of processAction: the "confused" answer
confused ==
  /\ pc' = "idle"
  /\ intents' = <<>>
  /\ outcome' = "confused"

\* A faulty variant of InterpreterResponds: the intents are kept whatever the
\* response says of success
InterpreterObeyed(Responses) ==
  /\ pc = "interpreter"
  /\ \E response \in Responses :
       IF response = <<>>
       THEN /\ confused
            /\ Commit(GS)
       ELSE /\ Commit(note(
                   addGameEvent(addGameEvent(GS, "player", shown(playerAction)),
                                "action", response[1].narrative),
                   [op |-> "response", success |-> response[1].success,
                    narrative |-> response[1].narrative,
                    intendedActions |-> response[1].intendedActions]))
            /\ pc' = "apply"
            /\ intents' = IF response[1].intendedActions # <<>>
                          THEN response[1].intendedActions[1]
                          ELSE <<>>
            /\ outcome' = outcome
  /\ UNCHANGED <<playerAction, calls, executed, pre, now, overlap>>

\* api.processPlayerAction settles: a response of Responses, <<>> when it
\* rejects.  The input and the narrative are logged, and the intents are kept
\* when the response says success.
InterpreterResponds(Responses) ==
  /\ pc = "interpreter"
  /\ \E response \in Responses :
       IF response = <<>>
       THEN /\ confused
            /\ Commit(GS)
       ELSE /\ Commit(note(
                   addGameEvent(addGameEvent(GS, "player", shown(playerAction)),
                                "action", response[1].narrative),
                   [op |-> "response", success |-> response[1].success,
                    narrative |-> response[1].narrative,
                    intendedActions |-> response[1].intendedActions]))
            /\ pc' = "apply"
            /\ intents' = IF response[1].success
                             /\ response[1].intendedActions # <<>>
                          THEN response[1].intendedActions[1]
                          ELSE <<>>
            /\ outcome' = outcome
  /\ UNCHANGED <<playerAction, calls, executed, pre, now, overlap>>

\* How a round of the loop of applyLLMActions ends in the state record s
roundEnds(s) ==
  /\ bounded(s)
  /\ Commit(s)
  /\ IF s.thrown
     THEN confused /\ executed' = executed
     ELSE /\ pc' = "apply"
          /\ intents' = Tail(intents)
          /\ outcome' = outcome
          /\ executed' = executed + 1

\* One round of the loop of applyLLMActions
ExecuteLLMAction(Envs) ==
  /\ pc = "apply"
  /\ intents # <<>>
  /\ \E env \in Envs :
       /\ wellDrawn(env, Head(intents).moveDirection)
       /\ roundEnds(executeLLMAction(GS, Head(intents), env))
  /\ UNCHANGED <<playerAction, calls, pre, now, overlap>>

\* The end of the turn: the counter, then the two ticks
EndTurn ==
  /\ pc = "apply"
  /\ intents = <<>>
  /\ Commit(updateBodyDecomposition(
              updateStatusEffects([GS EXCEPT !.currentTurn = @ + 1])))
  /\ pc' = "idle"
  /\ outcome' = "completed"
  /\ UNCHANGED <<playerAction, intents, calls, executed, pre, now, overlap>>

\* How a call handed to handleTalkAction ends in the state record s
talked(s) ==
  /\ Commit(s)
  /\ outcome' = s.ops[Len(s.ops)].result

\* A call that processAction hands to handleTalkAction
TalkAction(Actions, Envs) ==
  /\ pc = "idle"
  /\ calls < MaxCalls
  /\ \E a \in Actions, env \in Envs :
       /\ talks(a)
       /\ talked(handleTalkAction(GS, a.details, env))
       /\ playerAction' = a
  /\ pc' = "idle"
  /\ intents' = <<>>
  /\ calls' = calls + 1
  /\ executed' = 0
  /\ pre' = snapshot(GS)
  /\ UNCHANGED <<now, overlap>>

\* Date.now() moves on to a later instant
TimePasses(Instants) ==
  /\ \E t \in Instants :
       /\ now < t
       /\ t <= MaxClock
       /\ now' = t
  /\ UNCHANGED <<player, rooms, bodies, deadBodies, currentTurn, gameLog,
                 gameOver, emotionalEvents, nextId, pc, playerAction, intents, calls,
                 executed, pre, outcome, statusTicks, bodyTicks, applied,
                 expired, lastOp, overlap>>

-----------------------------------------------------------------------------
(* processAction called again while a call is suspended *)

\* The engine has no lock: a call made while another awaits a collaborator
\* runs on the same gameState.  Each call k keeps its own locals (the action,
\* the door found in the room it started in, the intents left); overlap.call[k]
\* holds them with the await the call is suspended at.

\* The steps below leave the one-call bookkeeping alone
aside == UNCHANGED <<pc, playerAction, intents, executed, pre, outcome, now>>

\* The condition under which processAction generates the room ahead
needsRoom(s, a) ==
  LET direction == extractDirection(s, a.details)
      d == doorIndex(currentRoomOf(s), direction)
  IN /\ a.type = "move" \/ (a.type = "custom" /\ isMovementAction(a.details))
     /\ direction # ""
     /\ d # 0
     /\ ~currentRoomOf(s).doors[d].locked
     /\ currentRoomOf(s).doors[d].leadsTo = ""

\* Call k runs up to its first await: of generateNewRoom when the room is to
\* be generated ahead, else of api.processPlayerAction
BeginCall(k, Actions) ==
  /\ overlap.call[k].at = "idle"
  /\ calls < MaxCalls
  /\ \E a \in Actions :
       /\ ~talks(a)
       /\ overlap' =
            [overlap EXCEPT !.call[k] =
               IF needsRoom(GS, a)
               THEN [at |-> "generating", action |-> a,
                     origin |-> player.currentRoomId,
                     door |-> doorIndex(currentRoomOf(GS),
                                        extractDirection(GS, a.details)),
                     direction |-> extractDirection(GS, a.details),
                     intents |-> <<>>]
               ELSE [notCalled EXCEPT !.at = "interpreter", !.action = a]]
  /\ calls' = calls + 1
  /\ Commit(GS)
  /\ aside

\* generateNewRoom settles for call k: the door found before the await is
\* linked to the room and the room is stored
RoomArrives(k, Envs) ==
  /\ overlap.call[k].at = "generating"
  /\ \E env \in Envs :
       /\ wellDrawn(env, overlap.call[k].direction)
       /\ Let(generateNewRoom(GS, overlap.call[k].direction, env),
              LAMBDA g :
                /\ bounded(linkRoom(g.s, overlap.call[k].origin,
                                    overlap.call[k].door, g.room))
                /\ Commit(linkRoom(g.s, overlap.call[k].origin,
                                   overlap.call[k].door, g.room)))
  /\ overlap' = [overlap EXCEPT !.call[k].at = "interpreter"]
  /\ UNCHANGED calls
  /\ aside

\* api.processPlayerAction settles for call k
CallAnswered(k, Responses) ==
  /\ overlap.call[k].at = "interpreter"
  /\ \E response \in Responses :
       IF response = <<>>
       THEN /\ Commit(GS)
            /\ overlap' = [overlap EXCEPT !.call[k] = notCalled]
       ELSE /\ Commit(note(
                   addGameEvent(addGameEvent(GS, "player",
                                             shown(overlap.call[k].action)),
                                "action", response[1].narrative),
                   [op |-> "response", success |-> response[1].success,
                    narrative |-> response[1].narrative,
                    intendedActions |-> response[1].intendedActions]))
            /\ overlap' =
                 [overlap EXCEPT
                    !.call[k].at = "apply",
                    !.call[k].intents =
                       IF response[1].success
                          /\ response[1].intendedActions # <<>>
                       THEN response[1].intendedActions[1]
                       ELSE <<>>]
  /\ UNCHANGED calls
  /\ aside

\* One round of the loop of applyLLMActions in call k
CallApplies(k, Envs) ==
  /\ overlap.call[k].at = "apply"
  /\ overlap.call[k].intents # <<>>
  /\ \E env \in Envs :
       /\ wellDrawn(env, Head(overlap.call[k].intents).moveDirection)
       /\ Let(executeLLMAction(GS, Head(overlap.call[k].intents), env),
              LAMBDA s :
                /\ bounded(s)
                /\ Commit(s)
                /\ overlap' =
                     [overlap EXCEPT !.call[k] =
                        IF s.thrown THEN notCalled
                        ELSE [@ EXCEPT !.intents = Tail(@)]])
  /\ UNCHANGED calls
  /\ aside

\* The end of the turn of call k: the counter, then the two ticks
CallCompletes(k) ==
  /\ overlap.call[k].at = "apply"
  /\ overlap.call[k].intents = <<>>
  /\ Commit(updateBodyDecomposition(
              updateStatusEffects([GS EXCEPT !.currentTurn = @ + 1])))
  /\ overlap' = [overlap EXCEPT !.call[k] = notCalled,
                                !.completed = @ + 1]
  /\ UNCHANGED calls
  /\ aside

-----------------------------------------------------------------------------
(* What the collaborators and the player can supply *)

\* An intent that asks for nothing
noIntent ==
  [stateChanges |-> <<>>, itemsToRemove |-> <<>>, itemsToAdd |-> <<>>,
   itemsToTake |-> <<>>, itemsToUse |-> <<>>, moveDirection |-> "",
   targetsToAttack |-> <<>>, itemsToCraft |-> <<>>, bodiesToSearch |-> <<>>,
   customEffects |-> <<>>]

\* State changes that change nothing
noChanges ==
  [hasHealth |-> FALSE, health |-> 0, addStatuses |-> <<>>,
   hasRemove |-> FALSE, removeStatuses |-> <<>>, addFeatures |-> <<>>]

\* Every collaborator fails, every random draw is high
offline ==
  [generated |-> <<>>, additionalDoors |-> <<"north">>,
   retreats |-> <<99, 99>>, finds |-> << <<>>, <<>> >>,
   search |-> <<>>, crafting |-> "throw", crafted |-> <<>>,
   started |-> FALSE, conversation |-> <<>>]

custom(details) == [type |-> "custom", details |-> details]

\* A response of the Narrative Interpreter
narrated(success, intendedActions) ==
  <<[narrative |-> "narrative", success |-> success,
     intendedActions |-> <<intendedActions>>]>>

\* A status effect as the interpreter sends it
status(id, name, duration, effects) ==
  [id |-> id, name |-> name, duration |-> duration, hasEffects |-> TRUE,
   effects |-> effects, uid |-> ""]

adds(statuses) ==
  [noIntent EXCEPT !.stateChanges = <<[noChanges EXCEPT !.addStatuses = statuses]>>]

-----------------------------------------------------------------------------
(* Turns: responses with no, one and several intents *)

takeAll == [noIntent EXCEPT !.itemsToTake = <<"all">>]
goNorth == [noIntent EXCEPT !.moveDirection = "north"]
poisoned == adds(<<status("p1", "Poisoned", 2, [damagePerTurn |-> 3])>>)

TurnActions == {custom("look around"), custom("take all and go north")}

TurnResponses ==
  { <<>>,
    <<[narrative |-> "narrative", success |-> TRUE, intendedActions |-> <<>>]>>,
    narrated(TRUE, <<>>),
    narrated(FALSE, <<takeAll>>),
    narrated(TRUE, <<poisoned>>),
    narrated(TRUE, <<takeAll, goNorth>>),
    narrated(TRUE, <<poisoned, takeAll, goNorth>>),
    narrated(TRUE,
      <<[stateChanges |-> <<[noChanges EXCEPT !.hasHealth = TRUE, !.health = -5]>>,
         itemsToRemove |-> <<"torch">>,
         itemsToAdd |-> <<[id |-> "", name |-> "Gem", type |-> "misc",
                           stackable |-> FALSE, quantity |-> 1,
                           properties |-> [value |-> 1]]>>,
         itemsToTake |-> <<"bread", "all">>,
         itemsToUse |-> <<"bread">>,
         moveDirection |-> "north",
         targetsToAttack |-> <<"rat">>,
         itemsToCraft |-> << <<"bread", "gem">> >>,
         bodiesToSearch |-> <<"rat">>,
         customEffects |-> <<[type |-> "action", message |-> "echo"]>>]>>) }

TurnEnvs == {offline}

TurnInstants == {500, 1000}

NextTurns ==
  \/ ProcessAction(TurnActions, TurnEnvs)
  \/ InterpreterResponds(TurnResponses)
  \/ ExecuteLLMAction(TurnEnvs)
  \/ EndTurn
  \/ TimePasses(TurnInstants)

SpecTurns == Init /\ [][NextTurns]_vars

-----------------------------------------------------------------------------
(* Status effects: added, added again, ticked *)

\* A status effect sent without an effects payload
bare(id, name, duration) ==
  [id |-> id, name |-> name, duration |-> duration, hasEffects |-> FALSE,
   effects |-> <<>>, uid |-> ""]

poison == status("s1", "Poisoned", 1, [damagePerTurn |-> 3])
venom == status("s2", "poisoned", 2, [damagePerTurn |-> 5])
lingering == bare("s3", "POISONED", 3)
blessing == status("s4", "Blessed", -1, [healingPerTurn |-> 2])
fading == status("s5", "blessed", 2, [damageModifier |-> 20])

StatusActions == {custom("wait")}

StatusResponses ==
  { narrated(TRUE, <<>>),
    narrated(TRUE, <<adds(<<poison>>)>>),
    narrated(TRUE, <<adds(<<venom>>)>>),
    narrated(TRUE, <<adds(<<lingering>>)>>),
    narrated(TRUE, <<adds(<<blessing>>)>>),
    narrated(TRUE, <<adds(<<fading>>)>>),
    narrated(TRUE, <<adds(<<blessing, poison>>), adds(<<venom>>)>>),
    narrated(TRUE, <<adds(<<status("s8", "Burning", 2, [damagePerTurn |-> 60]),
                            status("s9", "Bleeding", 3, [damagePerTurn |-> 50])>>)>>),
    narrated(TRUE, <<adds(<<bare("s14", "Dazed", 0)>>)>>) }

StatusEnvs == {offline}

NextStatus ==
  \/ ProcessAction(StatusActions, StatusEnvs)
  \/ InterpreterResponds(StatusResponses)
  \/ ExecuteLLMAction(StatusEnvs)
  \/ EndTurn

SpecStatus == Init /\ [][NextStatus]_vars

-----------------------------------------------------------------------------
(* Combat: a generated lair and attacks on what lives in it *)

\* A monster as the Room Generator's schema describes it
creature(name, health, maxHealth, damage, behavior) ==
  [id |-> "", name |-> name, health |-> health, maxHealth |-> maxHealth,
   damage |-> damage, behavior |-> behavior, loot |-> <<>>,
   possessions |-> <<>>, occupation |-> <<>>, conversationState |-> <<>>,
   personality_traits |-> <<>>, currentEmotion |-> <<>>, rapport |-> <<>>]

\* A generated room with its back door to the south and a door further north
chamber(name, monsters) ==
  [id |-> "", name |-> name, items |-> <<>>, monsters |-> monsters,
   doors |-> <<[direction |-> "south", locked |-> FALSE, leadsTo |-> ""],
               [direction |-> "north", locked |-> FALSE, leadsTo |-> ""]>>,
   visited |-> FALSE, specialFeatures |-> <<>>, deadBodies |-> <<>>,
   deadBodiesDefined |-> FALSE]

lair ==
  chamber("Lair",
          <<creature("Goblin Scout", 8, 8, 4, "hostile"),
            creature("Wounded Ogre", 10, 50, 9, "hostile"),
            creature("Rat", 2, 2, 1, "hostile"),
            creature("Cave Troll", 25, 25, 6, "hostile")>>)

attacks(targets) == [noIntent EXCEPT !.targetsToAttack = targets]

weakened == adds(<<status("s6", "Weakened", -1, [damageModifier |-> -50])>>)

CombatActions == {custom("go north"), custom("attack")}

CombatResponses ==
  { narrated(TRUE, <<goNorth>>),
    narrated(TRUE, <<attacks(<<"goblin">>)>>),
    narrated(TRUE, <<attacks(<<"ogre">>)>>),
    narrated(TRUE, <<attacks(<<"rat", "troll">>)>>),
    narrated(TRUE, <<[goNorth EXCEPT !.targetsToAttack = <<"troll", "rat">>]>>),
    narrated(TRUE, <<weakened, attacks(<<"goblin">>)>>),
    narrated(TRUE, <<[noIntent EXCEPT !.stateChanges =
                        <<[noChanges EXCEPT !.hasHealth = TRUE, !.health = -97]>>],
                     attacks(<<"troll", "rat">>)>>),
    narrated(TRUE,
      <<adds(<<status("s10", "Focused", -1,
                      [damageModifier |-> 35, damageTakenModifier |-> 25]),
               status("s11", "Burning", -1, [damagePerTurn |-> 4]),
               status("s12", "Reckless", -1,
                      [damageModifier |-> 35, damageTakenModifier |-> 25])>>),
        attacks(<<"troll">>)>>) }

CombatEnvs == {[offline EXCEPT !.generated = <<lair>>]}

NextCombat ==
  \/ ProcessAction(CombatActions, CombatEnvs)
  \/ InterpreterResponds(CombatResponses)
  \/ ExecuteLLMAction(CombatEnvs)
  \/ EndTurn

SpecCombat == Init /\ [][NextCombat]_vars

-----------------------------------------------------------------------------
(* Decay: a corpse in the lair while the clock runs *)

DecayActions == {custom("go north"), custom("attack")}

DecayResponses ==
  { narrated(TRUE, <<goNorth>>),
    narrated(TRUE, <<attacks(<<"rat">>)>>),
    narrated(TRUE, <<>>) }

\* Hours, days and weeks after the start
DecayInstants == {6, 12, 60, 340, 1020, 1030}

NextDecay ==
  \/ ProcessAction(DecayActions, CombatEnvs)
  \/ InterpreterResponds(DecayResponses)
  \/ ExecuteLLMAction(CombatEnvs)
  \/ EndTurn
  \/ TimePasses(DecayInstants)

SpecDecay == Init /\ [][NextDecay]_vars

-----------------------------------------------------------------------------
(* Rapport: talks with a guard, and an attack he surrenders to *)

hall ==
  chamber("Hall",
          <<[creature("Old Guard", 15, 100, 5, "neutral")
               EXCEPT !.occupation = <<"guard">>]>>)

\* An answer of the conversation service
answered(rapport_change) ==
  <<[rapport_change |-> rapport_change, emotional_change |-> <<>>,
     memory_formed |-> FALSE]>>

RapportChanges == {1, 4, 19, 39, 79, 150, -5, -20, -40, -80, -150}

RapportActions ==
  {custom("go north"), custom("attack"), [type |-> "talk", details |-> "guard"]}

RapportResponses ==
  { narrated(TRUE, <<goNorth>>),
    narrated(TRUE, <<attacks(<<"guard">>)>>) }

RapportEnvs ==
  { [offline EXCEPT !.generated = <<hall>>, !.started = TRUE,
                    !.conversation = answered(c)] : c \in RapportChanges }
  \cup { [offline EXCEPT !.generated = <<hall>>],
         [offline EXCEPT !.generated = <<hall>>, !.conversation = answered(20)] }

NextRapport ==
  \/ ProcessAction(RapportActions, RapportEnvs)
  \/ InterpreterResponds(RapportResponses)
  \/ ExecuteLLMAction(RapportEnvs)
  \/ EndTurn
  \/ TalkAction(RapportActions, RapportEnvs)

SpecRapport == Init /\ [][NextRapport]_vars

-----------------------------------------------------------------------------
(* Searches: a corpse with possessions, searched again and again *)

trinket(name) ==
  [id |-> "", name |-> name, type |-> "misc", stackable |-> FALSE,
   quantity |-> 1, properties |-> [value |-> 1]]

den ==
  chamber("Den",
          <<[creature("Rat", 2, 2, 1, "hostile")
               EXCEPT !.possessions = <<[trinket("Copper Coin") EXCEPT !.id = "coin"]>>],
            creature("Hermit", 30, 30, 2, "neutral")>>)

searches(targets) == [noIntent EXCEPT !.bodiesToSearch = targets]

\* An answer of the Corpse Search Narrator
told(success, itemsFound, witnessesReact) ==
  <<[success |-> success, itemsFound |-> itemsFound,
     witnessesReact |-> witnessesReact]>>

SearchResponses ==
  { narrated(TRUE, <<goNorth>>),
    narrated(TRUE, <<[attacks(<<"rat">>) EXCEPT !.bodiesToSearch = <<"rat">>]>>),
    narrated(TRUE, <<attacks(<<"rat">>)>>),
    narrated(TRUE, <<searches(<<"rat", "rat">>)>>),
    narrated(TRUE, <<searches(<<"rat">>), searches(<<"body">>)>>) }

SearchEnvs ==
  { [offline EXCEPT !.generated = <<den>>, !.search = answer] :
      answer \in { <<>>,
                   told(TRUE, <<[trinket("Gem") EXCEPT !.id = "gem"]>>, TRUE),
                   told(TRUE, <<>>, FALSE),
                   told(FALSE, <<>>, FALSE) } }

NextSearch ==
  \/ ProcessAction(CombatActions, SearchEnvs)
  \/ InterpreterResponds(SearchResponses)
  \/ ExecuteLLMAction(SearchEnvs)
  \/ EndTurn

SpecSearch == Init /\ [][NextSearch]_vars

-----------------------------------------------------------------------------
(* Fallback rooms: moves while the Room Generator is down *)

moves(direction) == [noIntent EXCEPT !.moveDirection = direction]

FallbackActions == {custom("go north"), custom("leave")}

FallbackResponses ==
  { narrated(TRUE, <<>>),
    narrated(TRUE, <<moves("north")>>),
    narrated(TRUE, <<moves("East")>>),
    narrated(TRUE, <<moves("south")>>) }

FallbackEnvs ==
  { [offline EXCEPT !.additionalDoors = draw] :
      draw \in { <<"north">>, <<"east", "down">>, <<"north", "up", "east">> } }

NextFallback ==
  \/ ProcessAction(FallbackActions, FallbackEnvs)
  \/ InterpreterResponds(FallbackResponses)
  \/ ExecuteLLMAction(FallbackEnvs)
  \/ EndTurn

SpecFallback == Init /\ [][NextFallback]_vars

-----------------------------------------------------------------------------
(* Pickups: by name, by part of a name, and of everything *)

vault ==
  [chamber("Vault", <<>>)
     EXCEPT !.items = <<trinket("Rusty Key Ring"), trinket("Rusty Key"),
                        trinket("Rusty Key")>>]

takes(names) == [noIntent EXCEPT !.itemsToTake = names]

PickupActions == {custom("go north"), custom("take")}

PickupResponses ==
  { narrated(TRUE, <<goNorth>>),
    narrated(TRUE, <<takes(<<"all">>)>>),
    narrated(TRUE, <<takes(<<"Everything">>)>>),
    narrated(TRUE, <<takes(<<"rusty key">>)>>),
    narrated(TRUE, <<takes(<<"KEY">>)>>),
    narrated(TRUE, <<takes(<<"bread">>)>>),
    narrated(TRUE, <<takes(<<"sword">>)>>),
    narrated(TRUE, <<takes(<<"Rusty Key", "rusty key", "rusty key">>)>>),
    narrated(TRUE, <<[noIntent EXCEPT !.itemsToRemove = <<"rusty key">>]>>),
    narrated(TRUE, <<[noIntent EXCEPT !.itemsToUse = <<"bread">>]>>),
    narrated(TRUE,
      <<[noIntent EXCEPT !.itemsToRemove = <<"sword">>,
                         !.itemsToTake = <<"sword">>,
                         !.itemsToUse = <<"sword">>,
                         !.targetsToAttack = <<"dragon">>],
        [noIntent EXCEPT !.targetsToAttack = <<"dragon">>,
                         !.bodiesToSearch = <<"dragon">>],
        takeAll>>) }

PickupEnvs == {[offline EXCEPT !.generated = <<vault>>]}

NextPickup ==
  \/ ProcessAction(PickupActions, PickupEnvs)
  \/ InterpreterResponds(PickupResponses)
  \/ ExecuteLLMAction(PickupEnvs)
  \/ EndTurn

SpecPickup == Init /\ [][NextPickup]_vars

-----------------------------------------------------------------------------
(* Generated rooms: answers of the Room Generator with all, some and none of
   the required doors, in both spellings *)

\* An answer with the given doors, and the extra directions drawn for it
GeneratedEnvs ==
  { [offline EXCEPT !.generated = << [chamber("Cell", <<>>) EXCEPT !.doors = e[1]] >>,
                    !.additionalDoors = e[2]] :
      e \in { << <<>>, <<"north", "up", "east">> >>,
              << <<[direction |-> "south", locked |-> FALSE, leadsTo |-> ""],
                   [direction |-> "north", locked |-> TRUE, leadsTo |-> ""]>>,
                 <<"north">> >>,
              << <<[direction |-> "South", locked |-> FALSE, leadsTo |-> ""],
                   [direction |-> "North", locked |-> FALSE, leadsTo |-> ""]>>,
                 <<"north">> >>,
              << <<[direction |-> "west", locked |-> FALSE, leadsTo |-> ""],
                   [direction |-> "down", locked |-> FALSE, leadsTo |-> ""]>>,
                 <<"east", "up">> >> } }
  \cup {offline}

NextGenerated ==
  \/ ProcessAction(FallbackActions, GeneratedEnvs)
  \/ InterpreterResponds(FallbackResponses)
  \/ ExecuteLLMAction(GeneratedEnvs)
  \/ EndTurn

SpecGenerated == Init /\ [][NextGenerated]_vars

-----------------------------------------------------------------------------
(* Yield: a camp of two hostile humanoids, one frightened by a talk *)

camp ==
  chamber("Camp",
          <<[creature("Young Guard", 100, 100, 5, "hostile")
               EXCEPT !.occupation = <<"guard">>],
            [creature("Bandit", 15, 100, 5, "hostile")
               EXCEPT !.occupation = <<"bandit">>,
                      !.loot = <<[id |-> "coin", name |-> "Gold Coin",
                                  type |-> "misc", stackable |-> TRUE,
                                  quantity |-> 3, properties |-> <<>>]>>]>>)

YieldResponses ==
  { narrated(TRUE, <<goNorth>>),
    narrated(TRUE, <<attacks(<<"guard", "guard">>)>>),
    narrated(TRUE, <<attacks(<<"bandit">>)>>),
    narrated(TRUE, <<adds(<<status("s7", "Cursed Blade", -1,
                                   [damageModifier |-> -600])>>),
                     attacks(<<"bandit">>)>>),
    narrated(TRUE, <<adds(<<status("s13", "Enraged", 1,
                                   [damageModifier |-> 460])>>),
                     attacks(<<"guard">>)>>) }

\* The conversation service answers with a frightened NPC; the draws of the
\* two attacks of an intent
YieldEnvs ==
  { [offline EXCEPT
       !.generated = <<camp>>, !.started = TRUE, !.retreats = draws,
       !.conversation =
          <<[rapport_change |-> 0,
             emotional_change |-> <<[primary |-> "fearful", intensity |-> 9]>>,
             memory_formed |-> FALSE]>>] :
      draws \in {<<10, 10>>, <<62, 62>>, <<65, 10>>, <<65, 65>>} }

NextYield ==
  \/ ProcessAction(RapportActions, YieldEnvs)
  \/ InterpreterResponds(YieldResponses)
  \/ ExecuteLLMAction(YieldEnvs)
  \/ EndTurn
  \/ TalkAction(RapportActions, YieldEnvs)

SpecYield == Init /\ [][NextYield]_vars

-----------------------------------------------------------------------------
(* Overlap: two calls at once, both through the entrance's north door *)

OverlapActions == {custom("go north"), custom("wait")}

OverlapResponses ==
  { narrated(TRUE, <<goNorth>>), narrated(TRUE, <<>>), <<>> }

OverlapEnvs == {offline}

NextOverlap ==
  \E k \in 1..2 :
    \/ BeginCall(k, OverlapActions)
    \/ RoomArrives(k, OverlapEnvs)
    \/ CallAnswered(k, OverlapResponses)
    \/ CallApplies(k, OverlapEnvs)
    \/ CallCompletes(k)

SpecOverlap == Init /\ [][NextOverlap]_vars

-----------------------------------------------------------------------------
(* Properties *)

\* C1: a turn that processAction completes through the interpreter advances
\* the turn counter by exactly 1 and runs the status tick and the corpse tick
\* exactly once each, whatever the number of intents; while the call is in
\* flight (the interpreter awaited, intents being applied) nothing has ticked
\* yet, and at completion no intent is left to apply.
C1_SingleTickPerTurn ==
  /\ pc \in {"interpreter", "apply"} =>
       /\ currentTurn = pre.currentTurn
       /\ statusTicks = pre.statusTicks
       /\ bodyTicks = pre.bodyTicks
  /\ (pc = "idle" /\ outcome = "completed") =>
       /\ intents = <<>>
       /\ currentTurn = pre.currentTurn + 1
       /\ statusTicks = pre.statusTicks + 1
       /\ bodyTicks = pre.bodyTicks + 1

\* A turn of three intents (a status added, everything taken, a move) completed
C1_ThreeIntentTurn ==
  /\ pc = "idle"
  /\ outcome = "completed"
  /\ executed = 3
  /\ player.statuses # <<>>
  /\ player.currentRoomId # "start"

\* The uids of the effects of a status list
uids(statuses) == {statuses[i].uid : i \in 1..Len(statuses)}

\* C2: in every status tick, an effect with the permanent duration -1 stays in
\* the list exactly as it was; an effect whose duration reaches 0 (it was 1)
\* leaves the list in that tick; and no effect that an earlier tick removed has
\* its per-turn effect applied again or is back in the list.
C2_TickKeepsPermanentDropsExpired ==
  [][statusTicks' # statusTicks =>
       /\ \A i \in 1..Len(player.statuses) :
            /\ player.statuses[i].duration = -1 =>
                 player.statuses[i] \in Range(player.statuses')
            /\ player.statuses[i].duration = 1 =>
                 /\ player.statuses[i].uid \notin uids(player.statuses')
                 /\ player.statuses[i].uid \in expired'
       /\ applied' \cap expired = {}
       /\ expired' \cap uids(player.statuses') = {}]_vars

\* A tick has run with a permanent effect active, after an earlier turn's tick
\* had removed an expired one
C2_TickAfterExpiry ==
  /\ pc = "idle"
  /\ outcome = "completed"
  /\ pre.expired # {}
  /\ applied # {}
  /\ \E i \in 1..Len(player.statuses) : player.statuses[i].duration = -1

\* No two active effects share a name, ignoring case
uniqueNames(statuses) ==
  \A i, j \in 1..Len(statuses) :
    toLowerCase(statuses[i].name) = toLowerCase(statuses[j].name) => i = j

\* The statuses that the last step added onto an active effect of the same name
refreshes == {i \in 1..Len(lastOp) : lastOp[i].op = "refreshed"}

attacked == {i \in 1..Len(lastOp) : lastOp[i].op = "attack"}
defeats == {i \in 1..Len(lastOp) : lastOp[i].op = "defeated"}

\* The room holds a corpse of the NPC that is fresh, at level 0 and searchable
freshCorpse(room, npc) ==
  \E id \in Range(rooms[room].deadBodies) :
    /\ bodies[id].originalNPCId = npc
    /\ bodies[id].decompositionLevel = 0
    /\ bodies[id].condition = "fresh"
    /\ bodies[id].searchable

\* C4 as stated: whenever the player's damage is at least the target's health,
\* after handleAttack the target's health is exactly 0 and the room holds a
\* corpse of it at decomposition level 0, fresh and searchable.
C4_DefeatedAtZeroHealth ==
  \A i \in defeats :
    lastOp[i].damage >= lastOp[i].healthBefore =>
      /\ lastOp[i].health = 0
      /\ freshCorpse(lastOp[i].room, lastOp[i].npc)

\* C5: an attack that defeats an NPC leaves the room's NPC list without it and
\* the player's experience larger by max(5, 2 x its max health), so by at
\* least 5; an unarmed player with no damage modifier deals damage 10, and an
\* attack of damage 10 on an NPC with health at most 10 defeats it.
C5_DefeatRemovesAndRewards ==
  /\ \A i \in defeats :
       /\ \A k \in 1..Len(rooms[lastOp[i].room].monsters) :
            rooms[lastOp[i].room].monsters[k].id # lastOp[i].npc
       /\ lastOp[i].xpAfter - lastOp[i].xpBefore
            = Max(5, 2 * lastOp[i].maxHealth)
       /\ lastOp[i].xpAfter - lastOp[i].xpBefore >= 5
       /\ player.experience >= lastOp[i].xpAfter
  /\ \A i \in attacked :
       /\ (lastOp[i].unarmed /\ lastOp[i].modifiers = {}) => lastOp[i].damage = 10
       /\ (lastOp[i].damage = 10 /\ lastOp[i].healthBefore <= 10) =>
            \E j \in defeats : j > i /\ lastOp[j].npc = lastOp[i].npc

\* An unarmed attack has defeated an NPC with max health 2, for the minimum of
\* 5 XP, and the NPC has left the room
C5_DefeatedForMinimumXP ==
  \E i \in defeats :
    /\ lastOp[i].damage = 10
    /\ lastOp[i].maxHealth = 2
    /\ lastOp[i].xpAfter = lastOp[i].xpBefore + 5
    /\ \A k \in 1..Len(rooms[lastOp[i].room].monsters) :
         rooms[lastOp[i].room].monsters[k].id # lastOp[i].npc

\* The corpses the last step's tick has removed
vanished == {i \in 1..Len(lastOp) : lastOp[i].op = "decomposed"}

\* C6: while the clock does not go back no step lowers the decomposition level
\* of a corpse, and after a step no room's corpse list and no registry entry
\* names a corpse at level 10: the tick that brought it there has removed it
\* from both.
C6_DecompositionAdvancesUntilRemoval ==
  [][/\ now' >= now =>
          \A id \in DOMAIN bodies \cap DOMAIN bodies' :
            bodies'[id].decompositionLevel >= bodies[id].decompositionLevel
     /\ \A r \in DOMAIN rooms' : \A id \in Range(rooms'[r].deadBodies) :
          bodies'[id].decompositionLevel < 10
     /\ \A id \in deadBodies' : bodies'[id].decompositionLevel < 10
     /\ \A i \in 1..Len(lastOp') :
          lastOp'[i].op = "decomposed" =>
            /\ lastOp'[i].id \notin Range(rooms'[lastOp'[i].room].deadBodies)
            /\ lastOp'[i].id \notin deadBodies']_vars

\* A tick has taken a corpse at level 10 out of the room's list and of the
\* registry
C6_CorpseGone ==
  \E i \in vanished :
    /\ lastOp[i].id \notin Range(rooms[lastOp[i].room].deadBodies)
    /\ lastOp[i].id \notin deadBodies
    /\ now >= 1008

\* The categories by their inclusive ranges of levels
bands ==
  << <<80, 100, "devoted">>, <<40, 79, "close_friend">>, <<20, 39, "ally">>,
     <<5, 19, "friendly">>, <<-4, 4, "neutral">>, <<-19, -5, "unfriendly">>,
     <<-39, -20, "hostile">>, <<-79, -40, "enemy">>,
     <<-100, -80, "mortal_enemy">> >>

\* The record's level lies in a band and its category is that band's
banded(record) ==
  \E b \in Range(bands) :
    /\ b[1] <= record.level
    /\ record.level <= b[2]
    /\ record.category = b[3]

\* Every record of the NPC's rapport map is banded
inBands(monster) ==
  monster.rapport # <<>> =>
    \A name \in DOMAIN monster.rapport[1] : banded(monster.rapport[1][name])

\* The rapport updates of the last step
rapports == {i \in 1..Len(lastOp) : lastOp[i].op = "rapport"}

\* C7: every rapport record of every NPC has a level between -100 and 100 and
\* the category of that level: devoted from 80, close_friend from 40, ally from
\* 20, friendly from 5, neutral from -4, unfriendly from -19, hostile from -39,
\* enemy from -79, mortal_enemy below; so has the record a surrender writes
\* for an NPC whose rapport map does not know the player.
C7_RapportWithinBands ==
  \A r \in DOMAIN rooms : \A k \in 1..Len(rooms[r].monsters) :
    /\ inBands(rooms[r].monsters[k])
    /\ inBands(executeSurrender(
                 GS, [rooms[r].monsters[k] EXCEPT !.rapport = << <<>> >>]).monster)

\* A rapport change of 150 has left the guard's record at level 100, devoted
C7_RapportClamped ==
  \E i \in rapports :
    /\ lastOp[i].change = 150
    /\ \E k \in 1..Len(currentRoomOf(GS).monsters) :
         LET npc == currentRoomOf(GS).monsters[k]
         IN /\ npc.id = lastOp[i].npc
            /\ npc.rapport[1][player.name] =
                 [level |-> 100, category |-> "devoted"]

\* The searches of the last step
searched == {i \in 1..Len(lastOp) : lastOp[i].op = "search"}

\* C8: a search of a corpse that the player has successfully searched before
\* returns an empty item list and changes neither the inventory, the room's
\* items nor the corpse, whatever the Corpse Search Narrator would answer.
C8_SecondSearchFindsNothing ==
  \A i \in searched :
    lastOp[i].already =>
      /\ lastOp[i].items = <<>>
      /\ lastOp[i].unchanged
      /\ ~lastOp[i].success

\* A corpse searched before has been searched again while the narrator was
\* ready to answer with a success and an item
C8_SearchedAgainWithOffer ==
  \E i \in searched :
    /\ lastOp[i].already
    /\ lastOp[i].narrator # <<>>
    /\ lastOp[i].narrator[1].success
    /\ lastOp[i].narrator[1].itemsFound # <<>>
    /\ lastOp[i].items = <<>>

\* The fallback rooms the last step made
fallbacks == {i \in 1..Len(lastOp) : lastOp[i].op = "fallback"}

\* The moves of the last step through a door that led nowhere
pioneered ==
  {i \in 1..Len(lastOp) : lastOp[i].op = "moved" /\ ~lastOp[i].wasLinked}

\* C9: a room made because the Room Generator failed is on the map with
\* exactly one door facing the opposite direction, unlocked and leading back
\* to the origin, and behind it one unlocked door leading nowhere for each of
\* the extra directions drawn (at least one); a door of the origin leads to it;
\* and a move through a door that led nowhere, for which the room was made,
\* ends in it.
C9_FallbackRoomLinked ==
  /\ \A i \in fallbacks :
       LET n == lastOp[i]
           doors == rooms[n.id].doors
       IN /\ n.id \in DOMAIN rooms
          /\ Len(n.additionalDoors) >= 1
          /\ Len(doors) = 1 + Len(n.additionalDoors)
          /\ doors[1] = [direction |-> n.back, locked |-> FALSE,
                         leadsTo |-> n.origin]
          /\ \A k \in 2..Len(doors) :
               /\ doors[k] = [direction |-> n.additionalDoors[k - 1],
                              locked |-> FALSE, leadsTo |-> ""]
               /\ doors[k].direction # n.back
          /\ \E k \in 1..Len(rooms[n.origin].doors) :
               rooms[n.origin].doors[k].leadsTo = n.id
  /\ \A j \in pioneered :
       /\ player.currentRoomId = lastOp[j].to
       /\ \E k \in 1..Len(rooms[lastOp[j].from].doors) :
            /\ toLowerCase(rooms[lastOp[j].from].doors[k].direction)
                 = toLowerCase(lastOp[j].direction)
            /\ rooms[lastOp[j].from].doors[k].leadsTo = lastOp[j].to
       /\ \A i \in fallbacks :
            /\ lastOp[i].id = lastOp[j].to
            /\ lastOp[i].origin = lastOp[j].from
            /\ lastOp[i].back = getOppositeDirection(lastOp[j].direction)

\* The player has moved east through a door that led nowhere into a fallback
\* room with a door back west and three more doors
C9_MovedIntoFallback ==
  \E i \in fallbacks, j \in pioneered :
    /\ lastOp[j].direction = "East"
    /\ lastOp[i].back = "west"
    /\ player.currentRoomId = lastOp[i].id
    /\ Len(rooms[lastOp[i].id].doors) = 4

\* The pickups of the last step
pickups == {i \in 1..Len(lastOp) : lastOp[i].op = "take"}

\* How often x occurs in a sequence
occurrences(seq, x) == Cardinality({i \in 1..Len(seq) : seq[i] = x})

\* The first index of a sequence of items whose name satisfies Match, or 0
firstNamed(items, Match(_)) ==
  IF \E i \in 1..Len(items) : Match(toLowerCase(items[i].name))
  THEN CHOOSE i \in 1..Len(items) :
         /\ Match(toLowerCase(items[i].name))
         /\ \A j \in 1..(i - 1) : ~Match(toLowerCase(items[j].name))
  ELSE 0

\* C10: a pickup leaves every other room's items alone; for the name "all" or
\* "everything" it appends every item of the room to the inventory and leaves
\* the room's list empty; for another name it moves the first item of that
\* exact name (ignoring case), else the first item whose name contains it,
\* else nothing; and the items of room and inventory together are the same
\* before and after.
C10_PickupOnlyMoves ==
  \A i \in pickups :
    LET n == lastOp[i]
        name == toLowerCase(n.itemName)
        there == n.before.rooms[n.room]
        left == n.after.rooms[n.room]
        exact == firstNamed(there, LAMBDA item : item = name)
        partial == firstNamed(there, LAMBDA item : includes(item, name))
        k == IF exact # 0 THEN exact ELSE partial
    IN /\ \A r \in DOMAIN n.before.rooms \ {n.room} :
            n.after.rooms[r] = n.before.rooms[r]
       /\ IF name \in {"all", "everything"}
          THEN /\ left = <<>>
               /\ n.after.inventory = n.before.inventory \o there
          ELSE IF k # 0
          THEN /\ left = splice(there, k)
               /\ n.after.inventory = Append(n.before.inventory, there[k])
          ELSE /\ left = there
               /\ n.after.inventory = n.before.inventory
       /\ Len(n.after.inventory) - Len(n.before.inventory)
            <= IF name \in {"all", "everything"} THEN Len(there) ELSE 1
       /\ \A x \in Range(there \o n.before.inventory)
                     \cup Range(left \o n.after.inventory) :
            occurrences(left \o n.after.inventory, x)
              = occurrences(there \o n.before.inventory, x)

\* "rusty key" has taken the second item of the vault, whose name it is, and
\* left the first, whose name contains it
C10_ExactBeforePartial ==
  \E i \in pickups :
    /\ toLowerCase(lastOp[i].itemName) = "rusty key"
    /\ Len(lastOp[i].before.rooms[lastOp[i].room]) = 3
    /\ lastOp[i].before.rooms[lastOp[i].room][1].name = "Rusty Key Ring"
    /\ lastOp[i].after.rooms[lastOp[i].room][1].name = "Rusty Key Ring"
    /\ Len(lastOp[i].after.rooms[lastOp[i].room]) = 2
    /\ Len(lastOp[i].after.inventory) = Len(lastOp[i].before.inventory) + 1

\* The moves of the last step through a door that already led somewhere
retraced ==
  {i \in 1..Len(lastOp) : lastOp[i].op = "moved" /\ lastOp[i].wasLinked}

\* C11: no step changes the leadsTo of a door that has one, and no step adds a
\* door to, takes a door from or turns a door of a room that is on the map; a
\* step that only moves through doors that already led somewhere puts no room
\* on the map, and each such move ends where the door led before.
C11_LinkedDoorsStay ==
  [][/\ \A r \in DOMAIN rooms :
          /\ r \in DOMAIN rooms'
          /\ Len(rooms'[r].doors) = Len(rooms[r].doors)
          /\ \A k \in 1..Len(rooms[r].doors) :
               /\ rooms'[r].doors[k].direction = rooms[r].doors[k].direction
               /\ rooms[r].doors[k].leadsTo # "" =>
                    rooms'[r].doors[k].leadsTo = rooms[r].doors[k].leadsTo
     /\ \A i \in 1..Len(lastOp') :
          (lastOp'[i].op = "moved" /\ lastOp'[i].wasLinked) =>
            /\ \E k \in 1..Len(rooms[lastOp'[i].from].doors) :
                 /\ toLowerCase(rooms[lastOp'[i].from].doors[k].direction)
                      = toLowerCase(lastOp'[i].direction)
                 /\ rooms[lastOp'[i].from].doors[k].leadsTo = lastOp'[i].to
            /\ DOMAIN rooms' = DOMAIN rooms]_vars

\* The player has come back to the entrance, which keeps its link to the north,
\* through the door of a second room
C11_WentBack ==
  \E i \in retraced :
    /\ lastOp[i].to = "start"
    /\ player.currentRoomId = "start"
    /\ \E k \in 1..Len(rooms["start"].doors) :
         rooms["start"].doors[k].leadsTo = lastOp[i].from

\* C12 as stated: in every state, a door of a room R that leads to a room R'
\* has a counterpart: R' is on the map and has a door facing the opposite
\* direction that leads to R, whatever doors and spellings the Room Generator
\* returned.
C12_DoorsLeadBack ==
  \A r \in DOMAIN rooms : \A k \in 1..Len(rooms[r].doors) :
    LET door == rooms[r].doors[k]
    IN door.leadsTo # "" =>
         /\ door.leadsTo \in DOMAIN rooms
         /\ \E j \in 1..Len(rooms[door.leadsTo].doors) :
              /\ toLowerCase(rooms[door.leadsTo].doors[j].direction)
                   = getOppositeDirection(door.direction)
              /\ rooms[door.leadsTo].doors[j].leadsTo = r

\* The rooms the Room Generator's answers of the last step became
generations == {i \in 1..Len(lastOp) : lastOp[i].op = "generated"}

\* Some door of the sequence faces the direction, ignoring case
faces(doors, dir) ==
  \E k \in 1..Len(doors) : toLowerCase(doors[k].direction) = toLowerCase(dir)

\* C13: a room made from an answer of the Room Generator is on the map with
\* every door of the answer, in the answer's order, and behind them one
\* unlocked door without leadsTo for each required direction (the opposite of
\* the travel direction, then the 1 to 3 extra directions) that no door of the
\* answer faces, ignoring case; so every required direction has its door.
C13_RequiredDoorsPresent ==
  \A i \in generations :
    LET n == lastOp[i]
        doors == rooms[n.id].doors
        required == <<n.back>> \o n.additionalDoors
        given == Len(n.answered)
    IN /\ n.id \in DOMAIN rooms
       /\ Len(n.additionalDoors) \in 1..3
       /\ \A k \in 1..Len(required) : faces(doors, required[k])
       /\ Len(doors) >= given
       /\ \A k \in 1..given :
            /\ doors[k].direction = n.answered[k].direction
            /\ doors[k].locked = n.answered[k].locked
       /\ \A k \in (given + 1)..Len(doors) :
            /\ doors[k].direction \in Range(required)
            /\ ~faces(n.answered, doors[k].direction)
            /\ ~doors[k].locked
            /\ doors[k].leadsTo \in {"", n.origin}
            /\ doors[k].leadsTo = n.origin => doors[k].direction = n.back
            /\ \A j \in (given + 1)..(k - 1) :
                 doors[j].direction # doors[k].direction

\* The Room Generator has answered without any door, three extra directions
\* were drawn, and the room on the map has the four required doors
C13_AllDoorsAdded ==
  \E i \in generations :
    /\ lastOp[i].answered = <<>>
    /\ Len(lastOp[i].additionalDoors) = 3
    /\ Len(rooms[lastOp[i].id].doors) = 4

\* The interpreter's answer, while it is the last thing that happened
answer == IF lastOp # <<>> /\ lastOp[1].op = "response" THEN <<lastOp[1]>> ELSE <<>>

\* The intents an answer carries
offered(n) == IF n.intendedActions # <<>> THEN n.intendedActions[1] ELSE <<>>

\* C14: the step in which the interpreter answers appends the player's input
\* and the narrative to the log and changes nothing else of the game, and
\* keeps the returned intents to apply only when the answer says success.
\* After an answer with success = false the only step is the end of the turn:
\* no intent has been applied, inventory, position, room contents and corpses
\* are what they were, and the turn counter advances by 1.  After an answer
\* with success = true every round applies the first intent left, and the turn
\* ends, the counter advancing by 1, when none is left.
C14_SuccessGatesIntents ==
  [][/\ (pc = "interpreter" /\ pc' = "apply") =>
          /\ gameLog' = gameLog \o
               <<[type |-> "player", message |-> shown(playerAction)],
                 [type |-> "action", message |-> lastOp'[1].narrative]>>
          /\ UNCHANGED <<player, rooms, bodies, deadBodies, currentTurn>>
          /\ intents' = IF lastOp'[1].success THEN offered(lastOp'[1]) ELSE <<>>
          /\ executed' = 0
     /\ (pc = "apply" /\ answer # <<>> /\ ~answer[1].success /\ now' = now) =>
          /\ pc' = "idle"
          /\ outcome' = "completed"
          /\ executed' = 0
          /\ currentTurn' = currentTurn + 1
          /\ player'.inventory = player.inventory
          /\ player'.currentRoomId = player.currentRoomId
          /\ \A r \in DOMAIN rooms :
               /\ rooms'[r].items = rooms[r].items
               /\ rooms'[r].monsters = rooms[r].monsters
               /\ rooms'[r].doors = rooms[r].doors
          /\ DOMAIN rooms' = DOMAIN rooms
          /\ deadBodies' = deadBodies
     /\ (pc = "apply" /\ pc' = "apply" /\ now' = now) =>
          /\ intents # <<>>
          /\ intents' = Tail(intents)
          /\ executed' = executed + 1
          /\ currentTurn' = currentTurn
     /\ (pc = "apply" /\ pc' = "idle" /\ outcome' = "completed") =>
          /\ intents = <<>>
          /\ currentTurn' = currentTurn + 1]_vars

\* The interpreter has answered success = false with a pickup intent: the
\* narrative is the last entry of the log, nothing is left to apply and the
\* room still holds its items
C14_RefusedWithIntents ==
  /\ pc = "apply"
  /\ answer # <<>>
  /\ ~answer[1].success
  /\ offered(answer[1]) # <<>>
  /\ intents = <<>>
  /\ gameLog[Len(gameLog)].message = answer[1].narrative
  /\ currentRoomOf(GS).items # <<>>

\* C15 as stated, where the only errors are failures of collaborators: a call
\* of processAction during which a collaborator failed is not aborted, so
\* every call that has returned has completed its turn and advanced the turn
\* counter by 1.
C15_FailuresNeverAbort ==
  (pc = "idle" /\ calls > 0) =>
    /\ outcome = "completed"
    /\ currentTurn = pre.currentTurn + 1

\* C16 as stated: when processAction has returned the "confused" response,
\* the turn counter and the whole game state (player, rooms and doors,
\* corpses, status effects, event log) are what they were before the call.
C16_AbortLeavesStateAsBefore ==
  (pc = "idle" /\ outcome = "confused") => snapshot(GS) = pre

\* C17 as stated: once the player has been defeated, no game state changes and
\* the turn counter does not advance, except for the end of the turn of the
\* defeat: not in a later intent of that turn, not in a later call of
\* processAction; and in the step of the defeat no attack follows the
\* counter-attack that brought the player's health to 0 or below.
C17_DefeatIsTerminal ==
  [][/\ (gameOver /\ (pc = "idle" \/ pre.gameOver \/ intents # <<>>)) =>
          UNCHANGED <<player, rooms, bodies, deadBodies, currentTurn, gameLog>>
     /\ \A i \in 1..Len(lastOp') :
          (lastOp'[i].op = "counterattack" /\ lastOp'[i].health <= 0) =>
            \A j \in (i + 1)..Len(lastOp') : lastOp'[j].op # "attack"]_vars

\* C18 as stated: in every state the player's health is between 0 and
\* maxHealth.
C18_HealthWithinBounds ==
  /\ player.health >= 0
  /\ player.health <= player.maxHealth

\* The sub-steps in the order of executeLLMAction
subSteps ==
  <<"stateChanges", "itemsToRemove", "itemsToAdd", "itemsToTake", "itemsToUse",
    "moveDirection", "targetsToAttack", "itemsToCraft", "bodiesToSearch",
    "customEffects">>

\* The place in that order of what a note tells of
rank(n) ==
  LET of(name) == CHOOSE k \in 1..Len(subSteps) : subSteps[k] = name
  IN CASE n.op = "step" -> of(n.step)
       [] n.op \in {"added", "refreshed"} -> of("stateChanges")
       [] n.op = "remove" -> of("itemsToRemove")
       [] n.op = "take" -> of("itemsToTake")
       [] n.op = "use" -> of("itemsToUse")
       [] n.op \in {"generated", "fallback", "moved"} -> of("moveDirection")
       [] n.op \in {"attack", "defeated", "body", "counterattack", "retreat",
                    "surrender", "survived"} -> of("targetsToAttack")
       [] n.op \in {"search", "searched"} -> of("bodiesToSearch")

\* The sub-steps an intent asks for, one per element of its lists
asked(a) ==
  LET each(list, name) == [k \in 1..Len(list) |-> name]
      once(present, name) == IF present THEN <<name>> ELSE <<>>
  IN once(a.stateChanges # <<>>, "stateChanges")
     \o each(a.itemsToRemove, "itemsToRemove")
     \o each(a.itemsToAdd, "itemsToAdd")
     \o each(a.itemsToTake, "itemsToTake")
     \o each(a.itemsToUse, "itemsToUse")
     \o once(a.moveDirection # "", "moveDirection")
     \o each(a.targetsToAttack, "targetsToAttack")
     \o once(a.itemsToCraft # <<>>, "itemsToCraft")
     \o each(a.bodiesToSearch, "bodiesToSearch")
     \o once(a.customEffects # <<>>, "customEffects")

\* The sub-steps a sequence of notes tells of
begun(ops) ==
  LET isStep(n) == n.op = "step"
      steps == SelectSeq(ops, isStep)
  IN [k \in 1..Len(steps) |-> steps[k].step]

\* C20: every round applies the first intent left and leaves the others, in
\* their order, for the rounds to come; within the round the sub-steps run in
\* the order stateChanges, itemsToRemove, itemsToAdd, itemsToTake, itemsToUse,
\* moveDirection, targetsToAttack, itemsToCraft, bodiesToSearch,
\* customEffects, one per element asked for, and whatever a sub-step did (a
\* room generated for the move included) was done before the next one began.
C20_SubStepsInOrder ==
  [][(pc = "apply" /\ intents # <<>> /\ executed' = executed + 1) =>
       /\ intents' = Tail(intents)
       /\ begun(lastOp') = asked(Head(intents))
       /\ \A i, j \in 1..Len(lastOp') :
            i < j => rank(lastOp'[i]) <= rank(lastOp'[j])]_vars

\* An intent asking for all ten kinds of sub-step has been applied: its
\* pickups came before the move into the fallback room, and that before the
\* search
C20_AllSubStepsRan ==
  /\ pc = "apply"
  /\ Len(begun(lastOp)) = 11
  /\ Range(begun(lastOp)) = Range(subSteps)
  /\ \E i, j, k \in 1..Len(lastOp) :
       /\ i < j /\ j < k
       /\ lastOp[i].op = "take"
       /\ lastOp[j].op = "fallback"
       /\ lastOp[k].op = "step" /\ lastOp[k].step = "bodiesToSearch"

\* One sequence is the beginning of another
startsWith(longer, shorter) ==
  /\ Len(shorter) <= Len(longer)
  /\ SubSeq(longer, 1, Len(shorter)) = shorter

\* C19: no step lowers the turn counter or raises it by more than one, and
\* over a whole call it is the counter of the call's start or one more; the
\* event log only grows at its end: the log before a step, and the log at the
\* start of the call, is the beginning of the log after.
C19_TurnAndLogOnlyGrow ==
  [][/\ currentTurn' \in {currentTurn, currentTurn + 1}
     /\ currentTurn' \in {pre'.currentTurn, pre'.currentTurn + 1}
     /\ startsWith(gameLog', gameLog)
     /\ startsWith(gameLog', pre'.gameLog)]_vars

\* A second call has completed: the counter is one more than at its start and
\* the log of its start has been added to
C19_SecondTurnLogged ==
  /\ pc = "idle" /\ outcome = "completed" /\ calls >= 2
  /\ currentTurn = pre.currentTurn + 1 /\ pre.currentTurn >= 1
  /\ pre.gameLog # <<>>
  /\ Len(gameLog) > Len(pre.gameLog)

\* The attacks of the last step that their target survived
survivals == {i \in 1..Len(lastOp) : lastOp[i].op = "survived"}

\* What the survivor of note i did in that attack: the notes that follow it
\* up to the next attack
reactions(i) ==
  {j \in (i + 1)..Len(lastOp) :
     /\ lastOp[j].op \in {"surrender", "retreat", "counterattack"}
     /\ \A k \in (i + 1)..j : lastOp[k].op # "attack"}

surrenders(i) ==
  checkSurrenderConditions(GS, lastOp[i].monster, rooms[lastOp[i].room])

retreats(i) ==
  checkRetreatConditions(GS, lastOp[i].monster, rooms[lastOp[i].room])

\* C21: an NPC that survives an attack with both its surrender conditions and
\* its retreat conditions true surrenders: the one thing it does in that
\* attack is to surrender, and no retreat is attempted.
C21_SurrenderBeforeRetreat ==
  \A i \in survivals :
    (surrenders(i) = "yes" /\ retreats(i) = "yes") =>
      /\ reactions(i) = {i + 1}
      /\ lastOp[i + 1].op = "surrender"
      /\ lastOp[i + 1].npc = lastOp[i].npc

\* The bandit, below a tenth of his health, met both conditions and
\* surrendered
C21_SurrenderedWithBothTrue ==
  \E i \in survivals :
    /\ surrenders(i) = "yes" /\ retreats(i) = "yes"
    /\ lastOp[i].monster.health * 10 < lastOp[i].monster.maxHealth
    /\ i + 1 \in reactions(i)
    /\ lastOp[i + 1].op = "surrender"

\* The NPCs of a room, by identifier
present(room) ==
  {rooms[room].monsters[k].id : k \in 1..Len(rooms[room].monsters)}

\* C22 as stated: an NPC that has surrendered carries the disposition tag
\* neutral, and no later attack on it makes it strike back.  (Every NPC of the
\* camp is generated hostile, so there a neutral NPC is one that surrendered.)
C22_SurrenderIsTerminal ==
  [][(pc = "apply" /\ intents # <<>>) =>
       \A room \in DOMAIN rooms :
         \A k \in 1..Len(rooms[room].monsters) :
           rooms[room].monsters[k].behavior = "neutral" =>
             \A j \in 1..Len(lastOp') :
               lastOp'[j].op = "counterattack" =>
                 lastOp'[j].npc # rooms[room].monsters[k].id]_vars

\* C23: an NPC that chooses to retreat succeeds exactly when the draw is below
\* (0.7 with more than one door, else 0.3) x health / maxHealth and is then
\* gone from the room, and otherwise is still there; it does nothing else in
\* that attack, so it does not strike back; and on every attack it survives
\* its disposition is evaluated anew, on the health it then has.
C23_RetreatResolvesAtOnce ==
  \A i \in survivals :
    LET m == lastOp[i].monster
        chance == IF lastOp[i].doors > 1 THEN 7 ELSE 3
        last == \A k \in (i + 1)..Len(lastOp) :
                  lastOp[k].op = "attack" => lastOp[k].npc # m.id
    IN /\ (surrenders(i) = "no" /\ retreats(i) = "yes") =>
            /\ reactions(i) = {i + 1}
            /\ lastOp[i + 1].op = "retreat"
            /\ lastOp[i + 1].npc = m.id
            /\ lastOp[i + 1].success
                 <=> (lastOp[i].draw * 10 * m.maxHealth < chance * m.health * 100)
            /\ last => (lastOp[i + 1].success <=> m.id \notin present(lastOp[i].room))
       /\ \A j \in reactions(i) :
            /\ lastOp[j].op = "retreat" =>
                 surrenders(i) = "no" /\ retreats(i) = "yes"
            /\ lastOp[j].op = "surrender" => surrenders(i) = "yes"
            /\ lastOp[j].op = "counterattack" =>
                 surrenders(i) = "no" /\ retreats(i) = "no"

\* The frightened guard was blocked at nine tenths of his health and, attacked
\* again, fled at eight tenths
C23_BlockedThenFled ==
  \E i, j \in survivals :
    /\ i < j
    /\ lastOp[i].npc = lastOp[j].npc
    /\ lastOp[i + 1].op = "retreat" /\ ~lastOp[i + 1].success
    /\ lastOp[j + 1].op = "retreat" /\ lastOp[j + 1].success
    /\ lastOp[j].monster.health < lastOp[i].monster.health
    /\ lastOp[i].npc \notin present(lastOp[i].room)

\* C29 as stated: the loot of a defeated NPC lies in the room where it died
C29_LootDroppedInRoom ==
  \A i \in defeats :
    \A id \in DOMAIN bodies :
      bodies[id].originalNPCId = lastOp[i].npc =>
        \A l \in 1..Len(bodies[id].originalLoot) :
          \E k \in 1..Len(rooms[lastOp[i].room].items) :
            rooms[lastOp[i].room].items[k].name = bodies[id].originalLoot[l].name

\* The orderings of a list
orderings(list) ==
  LET n == Len(list)
      onto == {p \in [1..n -> 1..n] : \A k \in 1..n : \E l \in 1..n : p[l] = k}
  IN {[k \in 1..n |-> list[p[k]]] : p \in onto}

\* The state after the status tick of a player whose effects are list
ticked(list) ==
  updateStatusEffects([GS EXCEPT !.player.statuses = list])

\* Effects that all deal damage, or all heal
oneWay(list) ==
  \/ \A k \in 1..Len(list) :
       /\ ~has(effectsOf(list[k]), "healingPerTurn")
       /\ has(effectsOf(list[k]), "damagePerTurn") =>
            effectsOf(list[k]).damagePerTurn >= 0
  \/ \A k \in 1..Len(list) :
       /\ ~has(effectsOf(list[k]), "damagePerTurn")
       /\ has(effectsOf(list[k]), "healingPerTurn") =>
            effectsOf(list[k]).healingPerTurn >= 0

\* The tick at the end of a turn
ticks == pc = "apply" /\ intents = <<>> /\ pc' = "idle"

\* C24 as stated: whatever the active effects, the tick of any ordering of
\* them leaves the health the tick leaves.
C24_TickOrderIrrelevant ==
  [][ticks =>
       \A list \in orderings(player.statuses) :
         ticked(list).player.health = player'.health]_vars

\* C24, amended: when the active effects all deal damage or all heal, the
\* tick of any ordering of them leaves the same health and logs the same
\* entries, as many of them.
C24_OneWayTickOrderIrrelevant ==
  [][(ticks /\ oneWay(player.statuses)) =>
       \A list \in orderings(player.statuses) :
         /\ ticked(list).player.health = player'.health
         /\ Len(ticked(list).gameLog) = Len(gameLog')
         /\ Range(ticked(list).gameLog) = Range(gameLog')]_vars

\* Two effects that deal damage have ticked on a player their sum would kill:
\* in either order the health is 0
C24_TwoDamagesTicked ==
  /\ pc = "idle" /\ statusTicks > 0
  /\ player.health = 0
  /\ Cardinality({k \in 1..Len(player.statuses) :
                    has(effectsOf(player.statuses[k]), "damagePerTurn")}) >= 2
  /\ Cardinality(orderings(player.statuses)) >= 2

\* The modifiers the active effects carry under a key, in list order, in
\* hundredths
carried(key) ==
  LET carries(e) == has(effectsOf(e), key) /\ effectsOf(e)[key] # 0
      carriers == SelectSeq(player.statuses, carries)
  IN [k \in 1..Len(carriers) |-> effectsOf(carriers[k])[key]]

\* damage x (1 + modifier) for each modifier in turn, floored each time
RECURSIVE flooredEach(_, _)
flooredEach(damage, modifiers) ==
  IF modifiers = <<>> THEN damage
  ELSE flooredEach((damage * (100 + Head(modifiers))) \div 100, Tail(modifiers))

\* The base damage of the NPC of a room
baseDamage(npc) ==
  LET found == {m \in UNION {Range(rooms[r].monsters) : r \in DOMAIN rooms} :
                  m.id = npc}
  IN (CHOOSE m \in found : TRUE).damage

\* What the effects of a list do to a health in a tick, modifiers left aside
RECURSIVE tickedHealth(_, _)
tickedHealth(health, list) ==
  IF list = <<>> THEN health
  ELSE LET e == effectsOf(Head(list))
           hurt == IF has(e, "damagePerTurn")
                   THEN Max(0, health - e.damagePerTurn) ELSE health
           healed == IF has(e, "healingPerTurn")
                     THEN Min(player.maxHealth, hurt + e.healingPerTurn)
                     ELSE hurt
       IN tickedHealth(healed, Tail(list))

\* C25: in a round that leaves the effects as they are, the damage of every
\* attack is 10 (no weapon is ever equipped) and that of every counter-attack
\* the NPC's base damage, multiplied by (1 + modifier) for each active effect
\* that carries the modifier, in list order, floored after each
\* multiplication; the status tick applies the damage and healing per turn of
\* the effects as they are.
C25_ModifiersFlooredEach ==
  [][/\ (pc = "apply" /\ intents # <<>> /\ player'.statuses = player.statuses) =>
          \A i \in 1..Len(lastOp') :
            /\ lastOp'[i].op = "attack" =>
                 /\ lastOp'[i].unarmed
                 /\ lastOp'[i].damage = flooredEach(10, carried("damageModifier"))
            /\ lastOp'[i].op = "counterattack" =>
                 lastOp'[i].damage =
                   flooredEach(baseDamage(lastOp'[i].npc),
                               carried("damageTakenModifier"))
     /\ ticks => player'.health = tickedHealth(player.health, player.statuses)]_vars

\* With two effects that each add 35% to the damage dealt and 25% to the
\* damage taken, the troll was hit for 17, not 18, and struck back for 8, not
\* 9; the tick then took the 4 of the burn
C25_TwiceModified ==
  /\ pc = "idle" /\ outcome = "completed"
  /\ Len(carried("damageModifier")) = 2
  /\ Len(carried("damageTakenModifier")) = 2
  /\ flooredEach(10, carried("damageModifier")) = 17
  /\ player.health = pre.player.health - 8 - 4
  /\ \E r \in DOMAIN rooms : \E k \in 1..Len(rooms[r].monsters) :
       /\ rooms[r].monsters[k].name = "Cave Troll"
       /\ rooms[r].monsters[k].health = 25 - 17

\* The removals and the uses of the last step
removals == {i \in 1..Len(lastOp) : lastOp[i].op = "remove"}
uses == {i \in 1..Len(lastOp) : lastOp[i].op = "use"}

\* The index the stated search picks in a list: an item of that name, else
\* one whose name contains it; 0 when there is none
preferred(items, itemName) ==
  LET exact == {k \in 1..Len(items) :
                  toLowerCase(items[k].name) = toLowerCase(itemName)}
      partial == {k \in 1..Len(items) :
                    includes(toLowerCase(items[k].name), toLowerCase(itemName))}
      least(S) == CHOOSE k \in S : \A l \in S : k <= l
  IN IF exact # {} THEN least(exact)
     ELSE IF partial # {} THEN least(partial)
     ELSE 0

\* C26 as stated: a removal takes one unit of the inventory item of that
\* name, else of the inventory item whose name contains it, and only when the
\* inventory has neither does it search the room's items, in the same way.
C26_RemovalPrefersExactName ==
  \A i \in removals :
    LET inventory == lastOp[i].before.inventory
        items == lastOp[i].before.rooms[lastOp[i].room]
        k == preferred(inventory, lastOp[i].itemName)
        l == preferred(items, lastOp[i].itemName)
    IN IF k # 0
       THEN /\ lastOp[i].after.inventory = removeOne(inventory, k)
            /\ lastOp[i].after.rooms = lastOp[i].before.rooms
       ELSE /\ lastOp[i].after.inventory = inventory
            /\ lastOp[i].after.rooms[lastOp[i].room] =
                 IF l # 0 THEN removeOne(items, l) ELSE items

\* The units of the items of a list whose name contains a name
units(items, itemName) ==
  LET named == {k \in 1..Len(items) :
                  includes(toLowerCase(items[k].name), toLowerCase(itemName))}
      F[k \in 0..Len(items)] ==
        IF k = 0 THEN 0
        ELSE F[k - 1] + (IF k \in named THEN items[k].quantity ELSE 0)
  IN F[Len(items)]

\* C27 as stated: using a consumable with a healing property, found in the
\* inventory or else in the room, raises the health by that amount up to
\* maxHealth and uses up one unit of it.
C27_UseConsumesOneUnit ==
  \A i \in uses :
    LET P(item) == includes(toLowerCase(item.name), toLowerCase(lastOp[i].itemName))
        inventory == lastOp[i].before.inventory
        items == lastOp[i].before.rooms[lastOp[i].room]
        k == findIndex(inventory, P)
        l == findIndex(items, P)
        item == IF k # 0 THEN inventory[k] ELSE items[l]
    IN ((k # 0 \/ l # 0) /\ item.type = "consumable" /\ prop(item, "healing") > 0) =>
         /\ lastOp[i].health =
              Min(player.maxHealth, lastOp[i].healthBefore + prop(item, "healing"))
         /\ units(lastOp[i].after.inventory, lastOp[i].itemName)
              + units(lastOp[i].after.rooms[lastOp[i].room], lastOp[i].itemName)
            = units(inventory, lastOp[i].itemName)
              + units(items, lastOp[i].itemName) - 1

\* C28 as stated: after a successful search of a corpse the items found are
\* in the player's inventory, the corpse has no loot and no possessions left,
\* and the player is among those who searched it.
C28_SearchTransfersAndClears ==
  \A i \in searched :
    (lastOp[i].success /\ lastOp[i].body \in DOMAIN bodies) =>
      /\ \A k \in 1..Len(lastOp[i].items) :
           \E l \in 1..Len(player.inventory) :
             player.inventory[l].name = lastOp[i].items[k].name
      /\ bodies[lastOp[i].body].originalLoot = <<>>
      /\ bodies[lastOp[i].body].originalPossessions = <<>>
      /\ player.name \in Range(bodies[lastOp[i].body].searchedBy)

\* No item of a list has a name that contains a name
unnamed(items, itemName) ==
  \A k \in 1..Len(items) :
    ~includes(toLowerCase(items[k].name), toLowerCase(itemName))

\* An intent whose every reference is to something that is not there: items
\* neither in the inventory nor in the room, NPCs and corpses not in the room
refersToNothing(a) ==
  LET room == rooms[player.currentRoomId]
      absent(itemName) == /\ unnamed(player.inventory, itemName)
                          /\ unnamed(room.items, itemName)
  IN /\ a.stateChanges = <<>> /\ a.itemsToAdd = <<>> /\ a.moveDirection = ""
     /\ a.itemsToCraft = <<>> /\ a.customEffects = <<>>
     /\ \A k \in 1..Len(a.itemsToRemove) : absent(a.itemsToRemove[k])
     /\ \A k \in 1..Len(a.itemsToUse) : absent(a.itemsToUse[k])
     /\ \A k \in 1..Len(a.itemsToTake) :
          /\ toLowerCase(a.itemsToTake[k]) \notin {"all", "everything"}
          /\ unnamed(room.items, a.itemsToTake[k])
     /\ \A k \in 1..Len(a.targetsToAttack) :
          unnamed(room.monsters, a.targetsToAttack[k])
     /\ \A k \in 1..Len(a.bodiesToSearch) :
          \A l \in 1..Len(room.deadBodies) :
            /\ room.deadBodies[l] # a.bodiesToSearch[k]
            /\ ~includes(toLowerCase(bodies[room.deadBodies[l]].name),
                         toLowerCase(a.bodiesToSearch[k]))

\* A round of an intent that refers to nothing ran all its sub-steps, raised
\* no error and left the player, the map, the corpses and the counter alone
passedOver ==
  /\ pc' = "apply" /\ executed' = executed + 1
  /\ intents' = Tail(intents)
  /\ begun(lastOp') = asked(Head(intents))
  /\ UNCHANGED <<player, rooms, bodies, deadBodies, currentTurn, gameOver>>

\* C30 as stated: an intent whose every reference is to something that is not
\* there changes no state, the event log included.
C30_MissingIsSilent ==
  [][(pc = "apply" /\ intents # <<>> /\ now' = now
      /\ refersToNothing(Head(intents))) =>
       /\ passedOver
       /\ gameLog' = gameLog]_vars

\* C30, amended: such an intent changes no state but the event log, which
\* gains one entry for each corpse searched for; no error is raised, every
\* sub-step of it is run and the intents after it are left to be applied.
C30_MissingChangesLogOnly ==
  [][(pc = "apply" /\ intents # <<>> /\ now' = now
      /\ refersToNothing(Head(intents))) =>
       /\ passedOver
       /\ startsWith(gameLog', gameLog)
       /\ Len(gameLog') = Len(gameLog) + Len(Head(intents).bodiesToSearch)]_vars

\* A turn has ended whose first two intents referred to nothing, the second
\* to a corpse; its third intent was applied and the turn advanced
C30_TurnWentOn ==
  /\ pc = "idle" /\ outcome = "completed"
  /\ executed = 3
  /\ currentTurn = pre.currentTurn + 1
  /\ Len(player.inventory) > Len(pre.player.inventory)
  /\ \E k \in 1..Len(gameLog) : gameLog[k].message = "Nothing to search here."

\* The condition of the band a decomposition level lies in
bandOf(level) ==
  IF level = 0 THEN "fresh"
  ELSE IF level <= 2 THEN "recently_dead"
  ELSE IF level <= 7 THEN "decomposing"
  ELSE "skeletal"

\* A corpse whose searchable flag and condition fit its level
wellAged(body) ==
  /\ body.decompositionLevel \in 0..10
  /\ body.searchable <=> body.decompositionLevel <= 7
  /\ body.condition = bandOf(body.decompositionLevel)

\* C31: every corpse is searchable exactly when its decomposition level is at
\* most 7 and has the condition of its level's band (fresh at 0, recently dead
\* at 1 to 2, decomposing at 3 to 7, skeletal at 8 to 10), and a corpse that
\* is not searchable is not searchable after any step.
C31_SearchableByLevel ==
  [][/\ \A id \in DOMAIN bodies : wellAged(bodies[id])
     /\ \A id \in DOMAIN bodies' : wellAged(bodies'[id])
     /\ \A id \in DOMAIN bodies \cap DOMAIN bodies' :
          ~bodies[id].searchable => ~bodies'[id].searchable]_vars

\* A corpse has reached level 8: skeletal and no longer searchable, and still
\* on the map
C31_SkeletalUnsearchable ==
  \E id \in DOMAIN bodies :
    /\ bodies[id].decompositionLevel = 8
    /\ bodies[id].condition = "skeletal"
    /\ ~bodies[id].searchable
    /\ id \in deadBodies

\* C32: every call that advances the turn counter, a conversation turn
\* included, runs the status-effect tick and the corpse tick exactly once: the
\* number of ticks of each kind equals the turn counter.
C32_TicksMatchTurns ==
  /\ statusTicks = currentTurn
  /\ bodyTicks = currentTurn

\* C33: an attack is resolved against the NPCs of the room the player is in at
\* the moment of the attack: when an intent moves the player, the room left
\* keeps its NPCs as they were, gets no corpse, and none of its NPCs
\* counter-attacks.
C33_RoomLeftUntouched ==
  [][(/\ pc = "apply" /\ intents # <<>> /\ now' = now
      /\ player'.currentRoomId # player.currentRoomId)
     => /\ rooms'[player.currentRoomId].monsters
             = rooms[player.currentRoomId].monsters
        /\ rooms'[player.currentRoomId].deadBodies
             = rooms[player.currentRoomId].deadBodies
        /\ \A k \in DOMAIN lastOp' :
             lastOp'[k].op \in {"attack", "survived", "body"}
               => lastOp'[k].room = player'.currentRoomId]_vars

\* C34: at the end of every turn the game is over exactly when the player's
\* health is at most 0, whatever brought the health down.
C34_GameOverIffDead ==
  (pc = "idle" /\ currentTurn > 0) => (gameOver <=> player.health <= 0)

\* C35: a humanoid NPC that survives an attack does exactly one of three
\* things in that attack (it surrenders, attempts a retreat or counter-attacks),
\* whatever its health, traits, emotion and company, and the turn does not end
\* in the error response.
C35_SurvivorReactsOnce ==
  /\ \A i \in survivals :
       isHumanoidNPC(lastOp[i].monster) => Cardinality(reactions(i)) = 1
  /\ (survivals # {} /\ pc = "idle") => outcome # "confused"

\* The step added or refreshed an effect of this name with the permanent
\* duration
madePermanent(ops, name) ==
  \E n \in 1..Len(ops) :
    /\ ops[n].op \in {"added", "refreshed"}
    /\ toLowerCase(ops[n].incoming.name) = toLowerCase(name)
    /\ ops[n].incoming.duration = -1

\* C36: an effect added with a duration other than -1 never becomes permanent:
\* an active effect has the duration -1 after a step only if it had it before
\* the step or the step added or refreshed it with the duration -1.
C36_NeverBecomesPermanent ==
  [][\A k \in 1..Len(player'.statuses) :
       player'.statuses[k].duration = -1 =>
         \/ \E j \in 1..Len(player.statuses) :
              /\ player.statuses[j].uid = player'.statuses[k].uid
              /\ player.statuses[j].duration = -1
         \/ madePermanent(lastOp', player'.statuses[k].name)]_vars

\* The corpses a room's list names
listedIn(places, r) == Range(places[r].deadBodies)

\* The rooms whose list names the corpse, counted with repetitions
listings(places, id) ==
  {<<r, k>> \in (DOMAIN places) \X (1..MaxCalls * 4) :
     k <= Len(places[r].deadBodies) /\ places[r].deadBodies[k] = id}

\* C37: the registry of corpses and the rooms' corpse lists hold the same
\* corpses; every registered corpse is listed once, in the room its roomId
\* names; and a step takes a corpse out of the registry exactly when it takes
\* it out of the lists.
C37_RegistryMatchesRooms ==
  [][/\ deadBodies' = UNION {listedIn(rooms', r) : r \in DOMAIN rooms'}
     /\ \A id \in deadBodies' :
          /\ Cardinality(listings(rooms', id)) = 1
          /\ bodies'[id].roomId \in DOMAIN rooms'
          /\ id \in listedIn(rooms', bodies'[id].roomId)
     /\ \A id \in deadBodies :
          id \notin deadBodies' <=>
            id \notin UNION {listedIn(rooms', r) : r \in DOMAIN rooms'}]_vars

\* A corpse lies registered and listed in a room the player has left
C37_CorpseElsewhere ==
  \E id \in deadBodies :
    /\ bodies[id].roomId # player.currentRoomId
    /\ id \in listedIn(rooms, bodies[id].roomId)

\* The rooms some door leads to
reached(places) ==
  {places[r].doors[d].leadsTo :
     <<r, d>> \in {<<q, e>> \in (DOMAIN places) \X (1..6) :
                     e <= Len(places[q].doors)}}

C39_ExperienceBelowNext ==
  player.experience < player.experienceToNext

=============================================================================
